---- MODULE Spec2Model ----
(***************************************************************************)
(* The conversation store of tinkeral (src/src/stores/conversation.ts)     *)
(* with the repository it persists to (src/unnamed/part_003) and the       *)
(* provider client it streams from (GoogleAPIClient, src/unnamed/part_002, *)
(* or the test double of src/src/stores/__tests__/conversation.test.ts).   *)
(*                                                                         *)
(* Every async operation of the store is a process: one action per run of  *)
(* synchronous code between two awaits.  A repository call is applied when *)
(* it is issued (IndexedDB serialises transactions in the order they were  *)
(* created) and its outcome is delivered by the step that resumes the      *)
(* caller.                                                                 *)
(***************************************************************************)
EXTENDS Integers, Sequences, FiniteSets, TLC

\* ---------------------------------------------------------------- bounds
MaxSends == 2       \* sendMessage calls in one behaviour
MaxConvs == 2       \* conversation ids the repository hands out
MaxChunks == 2      \* chunks one stream yields
MaxCalls == 2       \* calls of the store's operations, abortGeneration aside
MaxFailures == 1    \* repository calls that fail in one behaviour
MaxClock == 16
MaxNesting == 2         \* JSON wrappers around an error message      \* last value of Date.now(), in ms after construction

\* ------------------------------------------------------ program constants
ThrottleMs == 16    \* conversation.ts:263, now - lastUpdate >= 16

\* ---------------------------------------------------------------- values
Null == "<null>"            \* null of a string-valued field
Undefined == "<undefined>"  \* undefined of a string-valued field
NoId == 0                   \* null of an id-valued field

SendIds == 1..MaxSends
ConvIds == 1..MaxConvs
Gaps == {8}                 \* how far one Tick advances Date.now()

\* crypto.randomUUID(): the user message and the placeholder of send s
UserMsgId(s) == 2 * s - 1
AsstMsgId(s) == 2 * s

UserTexts == {"hi"}
EditTexts == {"ed"}

\* ------------------------------------------------------------ JS values
\* A JavaScript value as typeof and JSON.parse tell it apart.  A string is
\* its text cut into pieces: a run of characters without a brace, an opening
\* or a closing brace, or the members JSON.stringify writes between the braces
\* of an object (strings inside them are escaped, so the piece is one unit; a
\* text that starts inside or stops short of a brace pair is not a JSON
\* document whatever braces its members hold).
JsUndefined == [t |-> "undefined"]
JsNumber(n) == [t |-> "number", v |-> n]
JsString(pieces) == [t |-> "string", v |-> pieces]
JsObject(err, message, code) ==
    [t |-> "object", error |-> err, message |-> message, code |-> code]

Run(s) == [k |-> "run", s |-> s]
OpenBrace == [k |-> "{"]
CloseBrace == [k |-> "}"]
Members(obj) == [k |-> "members", obj |-> obj]

\* The string with the brace-free text s, and the text of such a string
JsText(s) == JsString(IF s = "" THEN <<>> ELSE <<Run(s)>>)
TextOf(v) == IF v.v = <<>> THEN "" ELSE v.v[1].s

\* JSON.stringify(obj) as a string
Stringify(obj) == <<OpenBrace, Members(obj), CloseBrace>>

\* if (v): undefined, 0 and "" are falsy
Truthy(v) ==
    CASE v.t = "undefined" -> FALSE
      [] v.t = "number" -> v.v # 0
      [] v.t = "string" -> v.v # <<>>
      [] OTHER -> TRUE

\* v.f: a property of an object, undefined on a string or a number
Field(v, f) == IF v.t = "object" THEN v[f] ELSE JsUndefined

\* A match that takes the whole message as the document: the extraction of
\* the text between the braces is left out
MatchWholeMessage(pieces) == pieces

\* message.match(/\{.*\}/s): the pieces from the first "{" to the last "}",
\* or <<>> for null
Match(pieces) ==
    LET opens == {i \in 1..Len(pieces) : pieces[i] = OpenBrace}
        closes == {i \in 1..Len(pieces) : pieces[i] = CloseBrace}
    IN  IF opens = {} \/ closes = {} THEN <<>>
        ELSE LET first == CHOOSE i \in opens : \A j \in opens : i <= j
                 last == CHOOSE i \in closes : \A j \in closes : j <= i
             IN  IF first < last THEN SubSeq(pieces, first, last) ELSE <<>>

\* JSON.parse of a matched text: [ok, value]; it throws (ok = FALSE) on
\* anything but one whole document
JsonParse(pieces) ==
    IF Len(pieces) = 3 /\ pieces[1] = OpenBrace /\ pieces[3] = CloseBrace
       /\ pieces[2].k = "members"
    THEN [ok |-> TRUE, value |-> pieces[2].obj]
    ELSE IF pieces = <<OpenBrace, CloseBrace>>
    THEN [ok |-> TRUE, value |-> JsObject(JsUndefined, JsUndefined, JsUndefined)]
    ELSE [ok |-> FALSE, value |-> JsUndefined]

\* GoogleAPIClient.getNestedErrorMessage: { message, code? }.  On a value that
\* is not a string message.match is not a function; the TypeError is caught
\* like a parse failure.
RECURSIVE getNestedErrorMessage(_)
getNestedErrorMessage(message) ==
    LET leaf == [message |-> message, code |-> JsUndefined]
    IN  IF message.t # "string" THEN leaf
        ELSE LET jsonMatch == Match(message.v)
             IN  IF jsonMatch = <<>> THEN leaf
                 ELSE LET parsed == JsonParse(jsonMatch)
                      IN  IF ~parsed.ok THEN leaf
                          ELSE LET errorData ==
                                       IF Truthy(Field(parsed.value, "error"))
                                       THEN Field(parsed.value, "error")
                                       ELSE parsed.value
                               IN  IF Truthy(Field(errorData, "message"))
                                   THEN LET nested ==
                                                getNestedErrorMessage(Field(errorData, "message"))
                                        IN  [message |-> nested.message,
                                             code |-> IF Truthy(Field(errorData, "code"))
                                                      THEN Field(errorData, "code")
                                                      ELSE nested.code]
                                   ELSE leaf

\* A thrown value.  cls is the class instanceof sees; the last four fields
\* are those of ProviderError and Undefined on every other class.
ErrorValue(cls, name, message) ==
    [cls |-> cls, name |-> name, message |-> message, type |-> Undefined,
     retriable |-> Undefined, userMessage |-> Undefined, statusCode |-> JsUndefined]

JsError(message) == ErrorValue("Error", "Error", message)

AbortError == ErrorValue("DOMException", "AbortError", "Aborted")

\* new ProviderError(params), the isProviderErrorParams branch
ProviderError(type, message, userMessage, retriable) ==
    [cls |-> "ProviderError", name |-> "ProviderError", message |-> message,
     type |-> type, retriable |-> retriable,
     userMessage |-> IF userMessage = Undefined
                     THEN "Something went wrong. Please try again."
                     ELSE userMessage,
     statusCode |-> JsUndefined]

\* ProviderError.isRetriableType
isRetriableType(type) == type \in {"network", "rate_limit", "server", "unknown"}

\* new ProviderError(error, provider) on a value that is not
\* ProviderErrorParams: the message of an Error, "network" for a TypeError
\* whose message includes "fetch", retriable by type
ProviderErrorFrom(e) ==
    LET message == IF e.cls = "thrown" THEN JsText("An unexpected error occurred")
                   ELSE e.message
        type == IF e.cls = "TypeError" /\ message = JsText("fetch failed")
                THEN "network" ELSE "unknown"
        userMessage ==
            IF type = "network"
            THEN "Network connection failed. Please check your internet connection."
            ELSE "Something went wrong. Please try again."
    IN  ProviderError(type, message, userMessage, isRetriableType(type))

\* super(params.message): Error keeps its message as a string
MessageString(v) ==
    CASE v.t = "string" -> v
      [] v.t = "number" -> JsText(ToString(v.v))
      [] v.t = "undefined" -> JsText("")
      [] OTHER -> JsText("[object Object]")

\* GoogleAPIClient.normalizeError on a thrown value whose message is a JS
\* string; cls "thrown" is a value that is not an Error
normalizeError(e) ==
    IF e.cls = "DOMException" /\ e.name = "AbortError"
    THEN ProviderError("unknown", JsText("Request cancelled by user"),
                       "Request cancelled", FALSE)
    ELSE LET message == IF e.cls = "thrown" THEN JsText("An unknown error occurred")
                        ELSE e.message
             nested == getNestedErrorMessage(message)
         IN  [ProviderError("unknown", MessageString(nested.message), Undefined, FALSE)
                EXCEPT !.statusCode = nested.code]

\* normalizeError on the failures of the store's runs, whose messages are
\* brace-free texts
NormalizeError(e) ==
    LET n == normalizeError([e EXCEPT !.message = JsText(e.message)])
    IN  [n EXCEPT !.message = TextOf(n.message)]

\* error instanceof DOMException && error.name === "AbortError"
IsAborted(e) == e.cls = "DOMException" /\ e.name = "AbortError"

\* Failures of the backend behind GoogleAPIClient, and of the test double
BackendErrors == {JsError("Stream failed")}
StubErrors == {JsError("Stream failed")}
DbError == JsError("Repository update failed")
NoError == JsError(Null)

\* ------------------------------------------- failures of the backend
\* What the backend's messages are built from: a leaf text and the JSON
\* wrappers around it, outermost first.  A wrapper is {"error":{"message":
\* inner,"code":code}} or flat {"message":inner,"code":code}, between a text
\* in front (pre) and a text behind (post).
Codes == {JsUndefined, JsNumber(429), JsNumber(500)}

Shapes == {"error", "flat"}

BracedText == <<OpenBrace, Run("x"), CloseBrace, Run(" ")>>

Pres == {<<>>, <<Run("got status: ")>>, BracedText}

Posts == {<<>>, <<Run(" (retry)")>>}

\* Strings that are not a JSON document with a truthy message: empty, plain,
\* braces around no JSON, an unbalanced brace, a document cut short, "{}", a
\* document without message, a document whose message is a number
LeafStrings ==
    {JsString(<<>>),
     JsText("quota exceeded"),
     JsString(<<OpenBrace, Run("x"), CloseBrace>>),
     JsString(<<Run("x"), OpenBrace>>),
     JsString(<<OpenBrace, Members(JsObject(JsUndefined, JsText("m"), JsNumber(429)))>>),
     JsString(<<OpenBrace, CloseBrace>>),
     JsString(Stringify(JsObject(JsUndefined, JsUndefined, JsNumber(429)))),
     JsString(Stringify(JsObject(JsUndefined, JsNumber(7), JsNumber(429))))}

Layers == [shape : Shapes, code : Codes, pre : Pres, post : Posts]

RECURSIVE LayerSeqs(_)
LayerSeqs(d) ==
    IF d = 0 THEN {<<>>}
    ELSE LayerSeqs(d - 1) \cup
         {<<l>> \o ls : l \in Layers, ls \in {x \in LayerSeqs(d - 1) : Len(x) = d - 1}}

\* The wrapper of layer l around the string inner
Wrap(l, inner) ==
    LET body == JsObject(JsUndefined, inner, l.code)
        obj == IF l.shape = "error"
               THEN JsObject(body, JsUndefined, JsUndefined)
               ELSE body
    IN  JsString(l.pre \o Stringify(obj) \o l.post)

\* The raw message of a description: the leaf inside its layers
RECURSIVE RawMessage(_, _)
RawMessage(layers, leaf) ==
    IF layers = <<>> THEN leaf
    ELSE Wrap(Head(layers), RawMessage(Tail(layers), leaf))

Descriptions == [layers : LayerSeqs(MaxNesting), leaf : LeafStrings]

NoDescription == [layers |-> <<>>, leaf |-> JsString(<<>>)]

\* What the backend raises: an ApiError of the SDK with a described message,
\* a failed fetch, the abort of the signal, a plain Error, a thrown string
ApiFailure(d) == ErrorValue("ApiError", "ApiError", RawMessage(d.layers, d.leaf))

OtherFailures ==
    {ErrorValue("TypeError", "TypeError", JsText("fetch failed")),
     ErrorValue("DOMException", "AbortError", JsText("Aborted")),
     ErrorValue("Error", "Error", JsText("Empty response from Google API")),
     ErrorValue("thrown", "thrown", JsText("boom"))}

NoOutcome == [kind |-> "none", value |-> JsUndefined]

\* No operation of the client under way
IdleApi == [op |-> "off", description |-> NoDescription,
            thrown |-> ErrorValue("thrown", "thrown", JsText("")),
            out |-> NoOutcome,
            pc |-> "idle", signal |-> "none", issued |-> 0, text |-> "",
            received |-> <<>>, yielded |-> <<>>, listeners |-> 0, registered |-> 0]

\* ------------------------------------------------------------ messages
NoMetadata == [model |-> Undefined, finishReason |-> Undefined, tokens |-> Undefined]

Message(id, role, content, metadata) ==
    [id |-> id, role |-> role, content |-> content, metadata |-> metadata]

\* lastMetadata = {} before any chunk had a finishReason or a usage
EmptyLastMetadata == [set |-> FALSE, finishReason |-> Undefined, tokens |-> Undefined]

\* { ...m.metadata, ...lastMetadata }: an own property whose value is
\* undefined is copied too
MergeMetadata(metadata, last) ==
    IF last.set
    THEN [metadata EXCEPT !.finishReason = last.finishReason, !.tokens = last.tokens]
    ELSE metadata

\* StreamChunk values of the test double, { delta, finishReason?, usage? }:
\* usage tells whether chunk.usage is an object, tokens is usage?.totalTokens
StubChunks ==
    {ch \in [delta : {"", "a", "b"},
             finishReason : {Undefined, "stop"},
             tokens : {Undefined, "15"},
             usage : BOOLEAN] : ch.usage = (ch.tokens # Undefined)}

\* Chunks of the backend's generateContentStream: text, candidates[0].finishReason
\* and usageMetadata (present or not) with its totalTokenCount
BackendChunks ==
    {bc \in [text : {Undefined, "a", "b"},
             finishReason : {Undefined, "STOP"},
             totalTokenCount : {Undefined, "15"},
             usageMetadata : BOOLEAN] : bc.usageMetadata = (bc.totalTokenCount # Undefined)}

\* The one chunk drawn for send s where the stream's data is not the point:
\* a terminal chunk whose text names the send
FewStubChunks(s) ==
    {ch \in StubChunks : /\ ch.delta = (IF s % 2 = 1 THEN "a" ELSE "b")
                         /\ ch.finishReason = "stop"
                         /\ ch.tokens = "15"}

FewBackendChunks(s) ==
    {bc \in BackendChunks : /\ bc.text = (IF s % 2 = 1 THEN "a" ELSE "b")
                            /\ bc.finishReason = "STOP"
                            /\ bc.totalTokenCount = "15"}

\* GoogleAPIClient.mapFinishReason
mapFinishReason(reason) ==
    CASE reason = "STOP" -> "stop"
      [] reason = "MAX_TOKENS" -> "length"
      [] reason = "SAFETY" -> "content_filter"
      [] reason = "RECITATION" -> "content_filter"
      [] OTHER -> "unknown"

\* The chunk streamChat yields for a backend chunk
YieldedChunk(bc) ==
    [delta |-> IF bc.text = Undefined THEN "" ELSE bc.text,
     finishReason |-> mapFinishReason(bc.finishReason),
     tokens |-> IF ~bc.usageMetadata THEN Undefined
                ELSE IF bc.totalTokenCount = Undefined THEN "0"
                ELSE bc.totalTokenCount,
     usage |-> bc.usageMetadata]

\* ------------------------------------------------- the conversation list
RECURSIVE IndexOf(_, _)
IndexOf(cs, id) ==
    IF cs = <<>> THEN 0
    ELSE IF cs[Len(cs)].id = id /\ IndexOf(SubSeq(cs, 1, Len(cs) - 1), id) = 0
         THEN Len(cs)
         ELSE IndexOf(SubSeq(cs, 1, Len(cs) - 1), id)

\* conversations.find((c) => c.id === id) finds one
HasConv(cs, id) == \E i \in 1..Len(cs) : cs[i].id = id

FindConv(cs, id) == cs[IndexOf(cs, id)]

\* conversations.map((c) => c.id === id ? conv : c)
ReplaceConv(cs, id, conv) ==
    [i \in 1..Len(cs) |-> IF cs[i].id = id THEN conv ELSE cs[i]]

\* Array.prototype.sort((a, b) => b.updatedAt - a.updatedAt), which is stable
RECURSIVE InsertDesc(_, _)
InsertDesc(c, sorted) ==
    IF sorted = <<>> THEN <<c>>
    ELSE IF Head(sorted).updatedAt >= c.updatedAt
         THEN <<Head(sorted)>> \o InsertDesc(c, Tail(sorted))
         ELSE <<c>> \o sorted

RECURSIVE SortDesc(_)
SortDesc(cs) ==
    IF cs = <<>> THEN <<>>
    ELSE InsertDesc(cs[Len(cs)], SortDesc(SubSeq(cs, 1, Len(cs) - 1)))

\* SetContent as it would be if the map gave every message the content
SetContentOfEach(messages, id, content) ==
    [i \in 1..Len(messages) |-> [messages[i] EXCEPT !.content = content]]

\* messages.map((m) => m.id === id ? { ...m, content } : m)
SetContent(messages, id, content) ==
    [i \in 1..Len(messages) |->
        IF messages[i].id = id THEN [messages[i] EXCEPT !.content = content]
        ELSE messages[i]]

\* CommitContent as it would be if the placeholder were taken to be the last
\* message of the conversation instead of the message with the send's id
CommitContentToLast(cs, cid, mid, content) ==
    IF ~HasConv(cs, cid) THEN cs
    ELSE ReplaceConv(cs, cid,
            [FindConv(cs, cid) EXCEPT !.messages =
                [i \in 1..Len(@) |->
                    IF i = Len(@) THEN [@[i] EXCEPT !.content = content] ELSE @[i]]])

\* The set() callbacks of sendMessage that write the accumulated content:
\* no change when the conversation is gone (return {})
CommitContent(cs, cid, mid, content) ==
    IF ~HasConv(cs, cid) THEN cs
    ELSE ReplaceConv(cs, cid,
            [FindConv(cs, cid) EXCEPT !.messages = SetContent(@, mid, content)])

\* The finalizing set() callback: content and merged metadata
CommitFinal(cs, cid, mid, content, last) ==
    IF ~HasConv(cs, cid) THEN cs
    ELSE ReplaceConv(cs, cid,
            [FindConv(cs, cid) EXCEPT !.messages =
                [i \in 1..Len(@) |->
                    IF @[i].id = mid
                    THEN [@[i] EXCEPT !.content = content,
                                      !.metadata = MergeMetadata(@, last)]
                    ELSE @[i]]])

\* ------------------------------------------------------------------ state
VARIABLES
    conversations,          \* the store's list, newest updatedAt first
    activeConversationId,   \* a conversation id or NoId
    isLoading,
    isStreaming,
    error,                  \* a message or Null
    abortController,        \* NoId, or the send whose AbortController it is
    aborted,                \* the sends whose signal is aborted
    repo,                   \* conversation id -> stored record or NoRecord
    allocated,              \* how many ids conversationsDb.create handed out
    settings,               \* useSettingsStore: "absent", "nokey" or "ok"
    provider,               \* what createClient resolves to: "google" or "stub"
    clock,                  \* Date.now()
    send,                   \* send id -> the locals of that sendMessage call
    crt,                    \* the createConversation call in flight
    upd,                    \* the updateMessage call in flight
    del,                    \* the deleteConversation call in flight
    load,                   \* the loadConversations call in flight
    lastOp,                 \* "abortGeneration" or "updateMessage" when the last
                            \* step was that call
    calls,                  \* how many operations have been called
    failures,               \* how many repository calls have failed
    api                     \* a GoogleAPIClient operation on a failing backend

storeVars == <<conversations, activeConversationId, isLoading, isStreaming,
               error, abortController>>

vars == <<conversations, activeConversationId, isLoading, isStreaming, error,
          abortController, aborted, repo, allocated, settings, provider,
          clock, send, crt, upd, del, load, lastOp, calls, failures, api>>

\* A conversation as the store holds it: title, systemPrompt and createdAt
\* are written once and never read by the store
Conversation(id, modelId, params, messages, updatedAt) ==
    [id |-> id, modelId |-> modelId, parameters |-> params,
     messages |-> messages, updatedAt |-> updatedAt]

\* The defaults sendMessage creates a conversation with:
\* settings?.defaultModel || "gemma-3-1b-it" and settings?.defaultParameters
\* || { temperature: 0.7, maxTokens: 1024, topP: 0.9 }
HardCodedModel == "gemma-3-1b-it"
HardCodedParameters == "temperature 0.7, maxTokens 1024, topP 0.9"
\* The default model as it would be if the settings were never consulted
DefaultModelHardCoded == HardCodedModel

DefaultModel ==
    IF settings = "absent" THEN HardCodedModel ELSE "settings.defaultModel"
DefaultParameters ==
    IF settings = "absent" THEN HardCodedParameters ELSE "settings.defaultParameters"

\* The arguments ChatInterface creates its first conversation with
UiModel == "gemma-3-27b-it"
UiParameters == "temperature 0.7, maxTokens 1024, topP 0.9"

NoRecord == [present |-> FALSE, modelId |-> Undefined, parameters |-> Undefined,
             messages |-> <<>>, updatedAt |-> 0]

\* The locals of a sendMessage call.  content, conv, asst, full, lastUpdate
\* and lastMetadata are the code's content, activeConversationId,
\* assistantMessageId, fullContent, lastUpdate and lastMetadata; io is the
\* outcome of the repository call it awaits; createdAt the Date.now() its
\* createConversation read.  History, read by no action: yielded, the chunks
\* the loop received; commits, the throttled commits it made; lastArrival and
\* fast, whether every chunk came less than ThrottleMs after the one before
\* (the first one after the stream was requested); base, the number of
\* messages the conversation had at the call; and once it returned, outcome
\* and err, how it ended and the value its catch block caught.
IdleSend ==
    [pc |-> "idle", content |-> Null, conv |-> NoId, createdAt |-> 0,
     io |-> "none", asst |-> NoId, full |-> "", lastUpdate |-> 0,
     lastMetadata |-> EmptyLastMetadata, yielded |-> <<>>, commits |-> 0,
     lastArrival |-> 0, fast |-> TRUE, base |-> 0,
     outcome |-> "none", err |-> NoError]

\* The locals of a sendMessage call that returned
DoneSend(outcome, e) ==
    [IdleSend EXCEPT !.pc = "done", !.outcome = outcome, !.err = e]

IdleCall == [pc |-> "idle", io |-> "none", id |-> NoId, createdAt |-> 0,
             conv |-> Conversation(NoId, Undefined, Undefined, <<>>, 0),
             messageId |-> NoId, content |-> "",
             result |-> <<>>]

\* The store after create(), before any call
InitStore ==
    /\ conversations = <<>>
    /\ activeConversationId = NoId
    /\ isLoading = FALSE
    /\ isStreaming = FALSE
    /\ error = Null
    /\ abortController = NoId
    /\ aborted = {}
    /\ repo = [c \in ConvIds |-> NoRecord]
    /\ allocated = 0
    /\ settings \in {"absent", "nokey", "ok"}
    /\ provider \in {"google", "stub"}
    /\ clock = 0
    /\ send = [s \in SendIds |-> IdleSend]
    /\ crt = IdleCall
    /\ upd = IdleCall
    /\ del = IdleCall
    /\ load = IdleCall
    /\ lastOp = "other"
    /\ calls = 0
    /\ failures = 0

Init == InitStore /\ api = IdleApi

\* --------------------------------------------------------- the repository
IoOutcomes == {"ok"} \cup (IF failures < MaxFailures THEN {"fail"} ELSE {})

Failed(io) == IF io = "fail" THEN failures + 1 ELSE failures

\* conversationsDb.create: db.conversations.add under a fresh id
RepoCreate(r, id, modelId, params, createdAt) ==
    [r EXCEPT ![id] = [present |-> TRUE, modelId |-> modelId, parameters |-> params,
                       messages |-> <<>>, updatedAt |-> createdAt]]

\* conversationsDb.update(id, { messages }): Dexie's update changes nothing
\* when the key is absent; operations.update stamps updatedAt itself
RepoUpdate(r, id, messages, now) ==
    IF r[id].present
    THEN [r EXCEPT ![id].messages = messages, ![id].updatedAt = now]
    ELSE r

\* conversationsDb.delete
RepoDelete(r, id) == [r EXCEPT ![id] = NoRecord]

\* ------------------------------------------------------------ sendMessage
InFlight(s) == send[s].pc \notin {"idle", "done"}

\* Catch as it would be without the "save partial content" block
CatchDropsPartial(s, snd, e, cs) ==
    /\ conversations' = cs
    /\ error' = IF IsAborted(e) THEN Null ELSE e.message
    /\ isLoading' = FALSE
    /\ isStreaming' = FALSE
    /\ abortController' = NoId
    /\ send' = [send EXCEPT ![s] = DoneSend("failed", e)]

\* Catch as it would be without the isAborted test
CatchReportsAbort(s, snd, e, cs) ==
    /\ conversations' = IF snd.full # ""
                        THEN CommitContent(cs, snd.conv, snd.asst, snd.full)
                        ELSE cs
    /\ error' = e.message
    /\ isLoading' = FALSE
    /\ isStreaming' = FALSE
    /\ abortController' = NoId
    /\ send' = [send EXCEPT ![s] = DoneSend("failed", e)]

\* The catch block of sendMessage, run on the list cs by the send with locals
\* snd: the partial content, then error and the three session fields.
Catch(s, snd, e, cs) ==
    /\ conversations' = IF snd.full # ""
                        THEN CommitContent(cs, snd.conv, snd.asst, snd.full)
                        ELSE cs
    /\ error' = IF IsAborted(e) THEN Null ELSE e.message
    /\ isLoading' = FALSE
    /\ isStreaming' = FALSE
    /\ abortController' = NoId
    /\ send' = [send EXCEPT ![s] = DoneSend("failed", e)]

\* Steps 2 and "Persist user message" of sendMessage on conversation cid of
\* the list cs: the optimistic set() and the issued conversationsDb.update.
CommitUserMessage(s, snd, cid, cs, io) ==
    LET conversation == FindConv(cs, cid)
        userMessage == Message(UserMsgId(s), "user", snd.content, NoMetadata)
        conversationWithUserMsg ==
            [conversation EXCEPT !.messages = Append(@, userMessage),
                                 !.updatedAt = clock]
    IN  /\ conversations' = SortDesc(ReplaceConv(cs, cid, conversationWithUserMsg))
        /\ isLoading' = TRUE
        /\ isStreaming' = TRUE
        /\ error' = Null
        /\ abortController' = s
        /\ repo' = IF io = "ok"
                   THEN RepoUpdate(repo, cid, conversationWithUserMsg.messages, clock)
                   ELSE repo
        /\ failures' = Failed(io)
        /\ send' = [send EXCEPT ![s] = [snd EXCEPT !.pc = "persistUser",
                                !.conv = cid, !.io = io,
                                !.base = Len(conversation.messages)]]

\* sendMessage(content) up to its first await
SendMessage(s, content) ==
    /\ UNCHANGED api
    /\ calls < MaxCalls
    /\ calls' = calls + 1
    /\ send[s].pc = "idle"
    /\ \A t \in SendIds : t < s => send[t].pc # "idle"
    /\ lastOp' = "other"
    /\ LET snd == [send[s] EXCEPT !.content = content]
       IN  IF activeConversationId = NoId
           THEN \* createConversation(modelId, params) up to conversationsDb.create
                /\ allocated < MaxConvs
                /\ \E io \in IoOutcomes :
                    /\ send' = [send EXCEPT ![s] = [snd EXCEPT !.pc = "autoCreate",
                                    !.io = io, !.createdAt = clock,
                                    !.conv = IF io = "ok" THEN allocated + 1 ELSE NoId]]
                    /\ repo' = IF io = "ok"
                               THEN RepoCreate(repo, allocated + 1, DefaultModel,
                                               DefaultParameters, clock)
                               ELSE repo
                    /\ allocated' = IF io = "ok" THEN allocated + 1 ELSE allocated
                    /\ failures' = Failed(io)
                /\ isLoading' = TRUE
                /\ error' = Null
                /\ UNCHANGED <<conversations, activeConversationId, isStreaming,
                               abortController>>
           ELSE IF ~HasConv(conversations, activeConversationId)
           THEN \* console.error("Conversation not found"); return
                /\ send' = [send EXCEPT ![s] = DoneSend("notFound", NoError)]
                /\ UNCHANGED <<storeVars, repo, allocated, failures>>
           ELSE /\ \E io \in IoOutcomes :
                    CommitUserMessage(s, snd, activeConversationId, conversations, io)
                /\ UNCHANGED <<activeConversationId, allocated>>
    /\ UNCHANGED <<aborted, settings, provider, clock, crt, upd, del, load>>

\* conversationsDb.create returned to the createConversation that
\* sendMessage awaits
SendAutoCreateReturn(s) ==
    /\ UNCHANGED api
    /\ UNCHANGED calls
    /\ send[s].pc = "autoCreate"
    /\ lastOp' = "other"
    /\ IF send[s].io = "fail"
       THEN \* createConversation's catch rethrows; sendMessage logs and returns
            /\ error' = "Failed to create conversation"
            /\ isLoading' = FALSE
            /\ send' = [send EXCEPT ![s] = DoneSend("createFailed", NoError)]
            /\ UNCHANGED <<conversations, activeConversationId, isStreaming,
                           abortController, repo, failures>>
       ELSE LET id == send[s].conv
                createdConversation ==
                    Conversation(id, DefaultModel, DefaultParameters, <<>>,
                                 send[s].createdAt)
                cs == <<createdConversation>> \o conversations
            IN  /\ activeConversationId' = id
                /\ \E io \in IoOutcomes : CommitUserMessage(s, send[s], id, cs, io)
    /\ UNCHANGED <<aborted, allocated, settings, provider, clock, crt, upd, del, load>>

\* SendPersistUserReturn as it would be with the credential check left out
SendPersistUserReturnUnchecked(s) ==
    /\ UNCHANGED api
    /\ UNCHANGED <<calls, failures>>
    /\ send[s].pc = "persistUser"
    /\ lastOp' = "other"
    /\ send' = [send EXCEPT ![s].pc = "createClient"]
    /\ UNCHANGED <<conversations, isLoading, isStreaming, error, abortController>>
    /\ UNCHANGED <<activeConversationId, aborted, repo, allocated, settings, provider,
                   clock, crt, upd, del, load>>

\* SendPersistUserReturn as it would be if a failed conversationsDb.update of
\* the user message were thrown on to the catch block
SendPersistUserReturnGated(s) ==
    /\ UNCHANGED api
    /\ UNCHANGED <<calls, failures>>
    /\ send[s].pc = "persistUser"
    /\ lastOp' = "other"
    /\ IF send[s].io = "fail"
       THEN Catch(s, send[s], DbError, conversations)
       ELSE IF settings = "absent"
       THEN Catch(s, send[s], JsError("Settings not initialized"), conversations)
       ELSE IF settings = "nokey"
       THEN Catch(s, send[s], JsError("API key not found for Google provider"),
                  conversations)
       ELSE /\ send' = [send EXCEPT ![s].pc = "createClient"]
            /\ UNCHANGED <<conversations, isLoading, isStreaming, error, abortController>>
    /\ UNCHANGED <<activeConversationId, aborted, repo, allocated, settings, provider,
                   clock, crt, upd, del, load>>

\* conversationsDb.update of the user message returned: logged on failure,
\* then the credential check and GoogleAPIClient.createClient
SendPersistUserReturn(s) ==
    /\ UNCHANGED api
    /\ UNCHANGED <<calls, failures>>
    /\ send[s].pc = "persistUser"
    /\ lastOp' = "other"
    /\ IF settings = "absent"
       THEN Catch(s, send[s], JsError("Settings not initialized"), conversations)
       ELSE IF settings = "nokey"
       THEN Catch(s, send[s], JsError("API key not found for Google provider"),
                  conversations)
       ELSE /\ send' = [send EXCEPT ![s].pc = "createClient"]
            /\ UNCHANGED <<conversations, isLoading, isStreaming, error, abortController>>
    /\ UNCHANGED <<activeConversationId, aborted, repo, allocated, settings, provider,
                   clock, crt, upd, del, load>>

\* What GoogleAPIClient.createClient settles with: the client, "Invalid API
\* key" (validateKey saw an ApiError), or the failure validateKey rethrows
ClientOutcomes == {"ok", "invalid", "rethrown"}

AssistantMetadata == [NoMetadata EXCEPT !.model = "modelId"]

\* AppendPlaceholder as it would be if the placeholder went to the front
PrependPlaceholder(cs, cid, mid) ==
    IF ~HasConv(cs, cid) THEN cs
    ELSE ReplaceConv(cs, cid,
            [FindConv(cs, cid) EXCEPT !.messages =
                <<Message(mid, "model", "", [NoMetadata EXCEPT !.model = "modelId"])>> \o @])

\* The set() callback that appends the placeholder: no change when the
\* conversation is gone
AppendPlaceholder(cs, cid, mid) ==
    IF ~HasConv(cs, cid) THEN cs
    ELSE ReplaceConv(cs, cid,
            [FindConv(cs, cid) EXCEPT !.messages =
                Append(@, Message(mid, "model", "", AssistantMetadata))])

\* createClient returned: the placeholder, client.streamChat(...) and the
\* first next() of the for await, which runs streamChat up to its first await
SendCreateClientReturn(s, outcome) ==
    /\ UNCHANGED api
    /\ UNCHANGED <<calls, failures>>
    /\ send[s].pc = "createClient"
    /\ lastOp' = "other"
    /\ IF outcome = "invalid"
       THEN /\ Catch(s, send[s], JsError("Invalid API key"), conversations)
            /\ UNCHANGED activeConversationId
       ELSE IF outcome = "rethrown"
       THEN /\ Catch(s, send[s], ErrorValue("TypeError", "TypeError", "fetch failed"),
                     conversations)
            /\ UNCHANGED activeConversationId
       ELSE LET cid == send[s].conv
                cs == AppendPlaceholder(conversations, cid, AsstMsgId(s))
                snd == [send[s] EXCEPT !.asst = AsstMsgId(s), !.lastUpdate = clock,
                                       !.lastArrival = clock]
            IN  /\ activeConversationId' =
                        IF HasConv(conversations, cid) THEN cid ELSE activeConversationId
                /\ IF provider = "google" /\ s \in aborted
                   THEN \* if (signal?.aborted) throw, normalized by streamChat's catch
                        Catch(s, snd, NormalizeError(AbortError), cs)
                   ELSE /\ conversations' = cs
                        /\ send' = [send EXCEPT ![s] =
                                [snd EXCEPT !.pc = IF provider = "google"
                                                   THEN "openStream" ELSE "streaming"]]
                        /\ UNCHANGED <<isLoading, isStreaming, error, abortController>>
    /\ UNCHANGED <<aborted, repo, allocated, settings, provider, clock, crt, upd, del, load>>

\* GoogleAPIClient.streamChat: generateContentStream returned
SendOpenStreamReturn(s, io) ==
    /\ UNCHANGED api
    /\ UNCHANGED <<calls, failures>>
    /\ send[s].pc = "openStream"
    /\ lastOp' = "other"
    /\ IF io = "fail"
       THEN \E e \in BackendErrors : Catch(s, send[s], NormalizeError(e), conversations)
       ELSE /\ send' = [send EXCEPT ![s].pc = "streaming"]
            /\ UNCHANGED <<conversations, isLoading, isStreaming, error, abortController>>
    /\ UNCHANGED <<activeConversationId, aborted, repo, allocated, settings, provider,
                   clock, crt, upd, del, load>>

\* The chunks the stream of this provider can hand to the for await
ProviderChunks ==
    IF provider = "google" THEN {YieldedChunk(bc) : bc \in BackendChunks}
    ELSE StubChunks

FewProviderChunks(s) ==
    IF provider = "google" THEN {YieldedChunk(bc) : bc \in FewBackendChunks(s)}
    ELSE FewStubChunks(s)

\* LoopBody as it would be without the throttle: a commit on every chunk
LoopBodyUnthrottled(s, ch) ==
    LET snd == send[s]
        fullContent == snd.full \o ch.delta
        lastMetadata ==
            IF ch.finishReason # Undefined \/ ch.usage
            THEN [set |-> TRUE, finishReason |-> ch.finishReason, tokens |-> ch.tokens]
            ELSE snd.lastMetadata
        now == clock
    IN  /\ conversations' = CommitContent(conversations, snd.conv, snd.asst, fullContent)
        /\ send' = [send EXCEPT ![s] =
                [snd EXCEPT !.full = fullContent,
                            !.lastMetadata = lastMetadata,
                            !.lastUpdate = now,
                            !.yielded = Append(@, ch),
                            !.commits = @ + 1,
                            !.fast = @ /\ (now - snd.lastArrival < ThrottleMs),
                            !.lastArrival = now]]
        /\ UNCHANGED <<isLoading, isStreaming, error, abortController>>

\* LoopBody as it would be if every throttled commit merged lastMetadata into
\* the placeholder, as the finalization does
LoopBodyMergesMetadata(s, ch) ==
    LET snd == send[s]
        fullContent == snd.full \o ch.delta
        lastMetadata ==
            IF ch.finishReason # Undefined \/ ch.usage
            THEN [set |-> TRUE, finishReason |-> ch.finishReason, tokens |-> ch.tokens]
            ELSE snd.lastMetadata
        now == clock
        commit == now - snd.lastUpdate >= ThrottleMs
    IN  /\ conversations' = IF commit
                            THEN CommitFinal(conversations, snd.conv, snd.asst,
                                             fullContent, lastMetadata)
                            ELSE conversations
        /\ send' = [send EXCEPT ![s] =
                [snd EXCEPT !.full = fullContent,
                            !.lastMetadata = lastMetadata,
                            !.lastUpdate = IF commit THEN now ELSE @,
                            !.yielded = Append(@, ch),
                            !.commits = IF commit THEN @ + 1 ELSE @,
                            !.fast = @ /\ (now - snd.lastArrival < ThrottleMs),
                            !.lastArrival = now]]
        /\ UNCHANGED <<isLoading, isStreaming, error, abortController>>

\* One iteration of the for await loop of sendMessage on chunk ch
LoopBody(s, ch) ==
    LET snd == send[s]
        fullContent == snd.full \o ch.delta
        lastMetadata ==
            IF ch.finishReason # Undefined \/ ch.usage
            THEN [set |-> TRUE, finishReason |-> ch.finishReason, tokens |-> ch.tokens]
            ELSE snd.lastMetadata
        now == clock
        commit == now - snd.lastUpdate >= ThrottleMs
    IN  /\ conversations' = IF commit
                            THEN CommitContent(conversations, snd.conv, snd.asst, fullContent)
                            ELSE conversations
        /\ send' = [send EXCEPT ![s] =
                [snd EXCEPT !.full = fullContent,
                            !.lastMetadata = lastMetadata,
                            !.lastUpdate = IF commit THEN now ELSE @,
                            !.yielded = Append(@, ch),
                            !.commits = IF commit THEN @ + 1 ELSE @,
                            !.fast = @ /\ (now - snd.lastArrival < ThrottleMs),
                            !.lastArrival = now]]
        /\ UNCHANGED <<isLoading, isStreaming, error, abortController>>

\* The next chunk of the stream arrived.  GoogleAPIClient.streamChat checks the
\* signal before it yields; the test double yields what it has.
SendStreamChunk(s, ch) ==
    /\ UNCHANGED api
    /\ UNCHANGED <<calls, failures>>
    /\ send[s].pc = "streaming"
    /\ Len(send[s].yielded) < MaxChunks
    /\ lastOp' = "other"
    /\ IF provider = "google" /\ s \in aborted
       THEN Catch(s, send[s], NormalizeError(AbortError), conversations)
       ELSE LoopBody(s, ch)
    /\ UNCHANGED <<activeConversationId, aborted, repo, allocated, settings, provider,
                   clock, crt, upd, del, load>>

\* What the stream can throw instead of a next chunk
ProviderFailures(s) ==
    IF provider = "google" THEN {NormalizeError(e) : e \in BackendErrors}
    ELSE StubErrors \cup (IF s \in aborted THEN {AbortError} ELSE {})

SendStreamFail(s, e) ==
    /\ UNCHANGED api
    /\ UNCHANGED <<calls, failures>>
    /\ send[s].pc = "streaming"
    /\ lastOp' = "other"
    /\ Catch(s, send[s], e, conversations)
    /\ UNCHANGED <<activeConversationId, aborted, repo, allocated, settings, provider,
                   clock, crt, upd, del, load>>

\* The stream ended: step 5 (finalize) and step 6 up to conversationsDb.update
SendStreamEnd(s, io) ==
    /\ UNCHANGED api
    /\ UNCHANGED calls
    /\ send[s].pc = "streaming"
    /\ lastOp' = "other"
    /\ LET snd == send[s]
           found == HasConv(conversations, snd.conv)
           cs == CommitFinal(conversations, snd.conv, snd.asst, snd.full, snd.lastMetadata)
       IN  /\ conversations' = cs
           /\ isLoading' = IF found THEN FALSE ELSE isLoading
           /\ isStreaming' = IF found THEN FALSE ELSE isStreaming
           /\ abortController' = IF found THEN NoId ELSE abortController
           /\ IF found
              THEN /\ send' = [send EXCEPT ![s].pc = "persistFinal", ![s].io = io]
                   /\ failures' = Failed(io)
                   /\ repo' = IF io = "ok"
                              THEN RepoUpdate(repo, snd.conv,
                                              FindConv(cs, snd.conv).messages, clock)
                              ELSE repo
              ELSE /\ io = "ok"
                   /\ send' = [send EXCEPT ![s] = DoneSend("finalized", NoError)]
                   /\ UNCHANGED <<repo, failures>>
    /\ UNCHANGED <<activeConversationId, error, aborted, allocated, settings, provider,
                   clock, crt, upd, del, load>>

\* The final conversationsDb.update returned
SendPersistFinalReturn(s) ==
    /\ UNCHANGED api
    /\ UNCHANGED <<calls, failures>>
    /\ send[s].pc = "persistFinal"
    /\ lastOp' = "other"
    /\ IF send[s].io = "fail"
       THEN Catch(s, send[s], DbError, conversations)
       ELSE /\ send' = [send EXCEPT ![s] = DoneSend("finalized", NoError)]
            /\ UNCHANGED <<conversations, isLoading, isStreaming, error, abortController>>
    /\ UNCHANGED <<activeConversationId, aborted, repo, allocated, settings, provider,
                   clock, crt, upd, del, load>>

\* AbortGeneration as it would be if it left isLoading to the catch block
AbortGenerationKeepsLoading ==
    /\ UNCHANGED api
    /\ UNCHANGED <<calls, failures>>
    /\ lastOp' = "abortGeneration"
    /\ IF abortController # NoId
       THEN /\ aborted' = aborted \cup {abortController}
            /\ isStreaming' = FALSE
            /\ abortController' = NoId
            /\ UNCHANGED isLoading
       ELSE UNCHANGED <<aborted, isLoading, isStreaming, abortController>>
    /\ UNCHANGED <<conversations, activeConversationId, error, repo, allocated,
                   settings, provider, clock, send, crt, upd, del, load>>

\* AbortGeneration as it would be if it left the release of the controller
\* to the catch block
AbortGenerationKeepsController ==
    /\ UNCHANGED api
    /\ UNCHANGED <<calls, failures>>
    /\ lastOp' = "abortGeneration"
    /\ IF abortController # NoId
       THEN /\ aborted' = aborted \cup {abortController}
            /\ isLoading' = FALSE
            /\ isStreaming' = FALSE
            /\ UNCHANGED abortController
       ELSE UNCHANGED <<aborted, isLoading, isStreaming, abortController>>
    /\ UNCHANGED <<conversations, activeConversationId, error, repo, allocated,
                   settings, provider, clock, send, crt, upd, del, load>>

\* --------------------------------------------------------- abortGeneration
AbortGeneration ==
    /\ UNCHANGED api
    /\ UNCHANGED <<calls, failures>>
    /\ lastOp' = "abortGeneration"
    /\ IF abortController # NoId
       THEN /\ aborted' = aborted \cup {abortController}
            /\ isLoading' = FALSE
            /\ isStreaming' = FALSE
            /\ abortController' = NoId
       ELSE UNCHANGED <<aborted, isLoading, isStreaming, abortController>>
    /\ UNCHANGED <<conversations, activeConversationId, error, repo, allocated,
                   settings, provider, clock, send, crt, upd, del, load>>

\* --------------------------------------------------- setActiveConversation
SetActiveConversation(id) ==
    /\ UNCHANGED api
    /\ calls < MaxCalls
    /\ UNCHANGED failures
    /\ calls' = calls + 1
    /\ lastOp' = "other"
    /\ activeConversationId' = id
    /\ UNCHANGED <<conversations, isLoading, isStreaming, error, abortController,
                   aborted, repo, allocated, settings, provider, clock, send, crt,
                   upd, del, load>>

\* ------------------------------------------------------ createConversation
CreateConversation(modelId, params) ==
    /\ UNCHANGED api
    /\ calls < MaxCalls
    /\ calls' = calls + 1
    /\ crt.pc = "idle"
    /\ allocated < MaxConvs
    /\ lastOp' = "other"
    /\ isLoading' = TRUE
    /\ error' = Null
    /\ \E io \in IoOutcomes :
        /\ crt' = [crt EXCEPT !.pc = "await", !.io = io, !.createdAt = clock,
                              !.id = IF io = "ok" THEN allocated + 1 ELSE NoId,
                              !.conv = Conversation(NoId, modelId, params, <<>>, clock)]
        /\ repo' = IF io = "ok"
                   THEN RepoCreate(repo, allocated + 1, modelId, params, clock)
                   ELSE repo
        /\ allocated' = IF io = "ok" THEN allocated + 1 ELSE allocated
        /\ failures' = Failed(io)
    /\ UNCHANGED <<conversations, activeConversationId, isStreaming, abortController,
                   aborted, settings, provider, clock, send, upd, del, load>>

\* CreateConversationReturn as it would be if the new conversation were not
\* made the active one
CreateConversationReturnKeepsActive ==
    /\ UNCHANGED api
    /\ UNCHANGED <<calls, failures>>
    /\ crt.pc = "await"
    /\ lastOp' = "other"
    /\ crt' = IdleCall
    /\ IF crt.io = "fail"
       THEN /\ error' = "Failed to create conversation"
            /\ isLoading' = FALSE
            /\ UNCHANGED conversations
       ELSE /\ conversations' = <<[crt.conv EXCEPT !.id = crt.id]>> \o conversations
            /\ isLoading' = FALSE
            /\ UNCHANGED error
    /\ UNCHANGED <<activeConversationId, isStreaming, abortController, aborted, repo,
                   allocated, settings, provider, clock, send, upd, del, load>>

CreateConversationReturn ==
    /\ UNCHANGED api
    /\ UNCHANGED <<calls, failures>>
    /\ crt.pc = "await"
    /\ lastOp' = "other"
    /\ crt' = IdleCall
    /\ IF crt.io = "fail"
       THEN /\ error' = "Failed to create conversation"
            /\ isLoading' = FALSE
            /\ UNCHANGED <<conversations, activeConversationId>>
       ELSE /\ conversations' =
                <<[crt.conv EXCEPT !.id = crt.id]>> \o conversations
            /\ activeConversationId' = crt.id
            /\ isLoading' = FALSE
            /\ UNCHANGED error
    /\ UNCHANGED <<isStreaming, abortController, aborted, repo, allocated, settings,
                   provider, clock, send, upd, del, load>>

\* ----------------------------------------------------------- updateMessage
UpdateMessage(conversationId, messageId, content) ==
    /\ UNCHANGED api
    /\ calls < MaxCalls
    /\ calls' = calls + 1
    /\ upd.pc = "idle"
    /\ lastOp' = "updateMessage"
    /\ IF ~HasConv(conversations, conversationId)
       THEN \* console.error("Conversation not found"); return
            UNCHANGED <<upd, repo, failures>>
       ELSE LET conversation == FindConv(conversations, conversationId)
                updatedMessages == SetContent(conversation.messages, messageId, content)
                updatedConversation ==
                    [conversation EXCEPT !.messages = updatedMessages,
                                         !.updatedAt = clock]
            IN  \E io \in IoOutcomes :
                    /\ upd' = [upd EXCEPT !.pc = "await", !.io = io,
                                          !.id = conversationId,
                                          !.messageId = messageId,
                                          !.content = content,
                                          !.conv = updatedConversation]
                    /\ repo' = IF io = "ok"
                               THEN RepoUpdate(repo, conversationId, updatedMessages, clock)
                               ELSE repo
                    /\ failures' = Failed(io)
    /\ UNCHANGED <<storeVars, aborted, allocated, settings, provider, clock, send,
                   crt, del, load>>

UpdateMessageReturn ==
    /\ UNCHANGED api
    /\ UNCHANGED <<calls, failures>>
    /\ upd.pc = "await"
    /\ lastOp' = "other"
    /\ upd' = IdleCall
    /\ IF upd.io = "fail"
       THEN /\ error' = "Failed to update message"
            /\ UNCHANGED conversations
       ELSE /\ conversations' = SortDesc(ReplaceConv(conversations, upd.id, upd.conv))
            /\ UNCHANGED error
    /\ UNCHANGED <<activeConversationId, isLoading, isStreaming, abortController,
                   aborted, repo, allocated, settings, provider, clock, send, crt,
                   del, load>>

\* ------------------------------------------------------ deleteConversation
\* conversations.filter((c) => c.id !== id)
RECURSIVE RemoveConv(_, _)
RemoveConv(cs, id) ==
    IF cs = <<>> THEN <<>>
    ELSE IF Head(cs).id = id THEN RemoveConv(Tail(cs), id)
    ELSE <<Head(cs)>> \o RemoveConv(Tail(cs), id)

DeleteConversation(id) ==
    /\ UNCHANGED api
    /\ calls < MaxCalls
    /\ calls' = calls + 1
    /\ del.pc = "idle"
    /\ lastOp' = "other"
    /\ \E io \in IoOutcomes :
        /\ del' = [del EXCEPT !.pc = "await", !.io = io, !.id = id]
        /\ repo' = IF io = "ok" THEN RepoDelete(repo, id) ELSE repo
        /\ failures' = Failed(io)
    /\ UNCHANGED <<storeVars, aborted, allocated, settings, provider, clock, send,
                   crt, upd, load>>

\* DeleteConversationReturn as it would be if it left activeConversationId alone
DeleteConversationReturnKeepsActive ==
    /\ UNCHANGED api
    /\ UNCHANGED <<calls, failures>>
    /\ del.pc = "await"
    /\ lastOp' = "other"
    /\ del' = IdleCall
    /\ IF del.io = "fail"
       THEN /\ error' = "Failed to delete conversation"
            /\ UNCHANGED conversations
       ELSE /\ conversations' = RemoveConv(conversations, del.id)
            /\ UNCHANGED error
    /\ UNCHANGED <<activeConversationId, isLoading, isStreaming, abortController,
                   aborted, repo, allocated, settings, provider, clock, send, crt,
                   upd, load>>

\* DeleteConversationReturn as it would be if the conversation were removed
\* from the list whether or not conversationsDb.delete succeeded
DeleteConversationReturnOptimistic ==
    /\ UNCHANGED api
    /\ UNCHANGED <<calls, failures>>
    /\ del.pc = "await"
    /\ lastOp' = "other"
    /\ del' = IdleCall
    /\ conversations' = RemoveConv(conversations, del.id)
    /\ activeConversationId' =
            IF activeConversationId = del.id THEN NoId ELSE activeConversationId
    /\ IF del.io = "fail"
       THEN error' = "Failed to delete conversation"
       ELSE UNCHANGED error
    /\ UNCHANGED <<isLoading, isStreaming, abortController, aborted, repo, allocated,
                   settings, provider, clock, send, crt, upd, load>>

DeleteConversationReturn ==
    /\ UNCHANGED api
    /\ UNCHANGED <<calls, failures>>
    /\ del.pc = "await"
    /\ lastOp' = "other"
    /\ del' = IdleCall
    /\ IF del.io = "fail"
       THEN /\ error' = "Failed to delete conversation"
            /\ UNCHANGED <<conversations, activeConversationId>>
       ELSE /\ conversations' = RemoveConv(conversations, del.id)
            /\ activeConversationId' =
                    IF activeConversationId = del.id THEN NoId ELSE activeConversationId
            /\ UNCHANGED error
    /\ UNCHANGED <<isLoading, isStreaming, abortController, aborted, repo, allocated,
                   settings, provider, clock, send, crt, upd, load>>

\* ------------------------------------------------------- loadConversations
\* db.conversations.toArray(): the stored records in key order
RECURSIVE StoredFrom(_, _)
StoredFrom(r, id) ==
    IF id > MaxConvs THEN <<>>
    ELSE (IF r[id].present
          THEN <<Conversation(id, r[id].modelId, r[id].parameters, r[id].messages,
                              r[id].updatedAt)>>
          ELSE <<>>) \o StoredFrom(r, id + 1)

LoadConversations ==
    /\ UNCHANGED api
    /\ calls < MaxCalls
    /\ calls' = calls + 1
    /\ load.pc = "idle"
    /\ lastOp' = "other"
    /\ isLoading' = TRUE
    /\ error' = Null
    /\ \E io \in IoOutcomes :
        /\ load' = [load EXCEPT !.pc = "await", !.io = io,
                                !.result = IF io = "ok" THEN StoredFrom(repo, 1) ELSE <<>>]
        /\ failures' = Failed(io)
    /\ UNCHANGED <<conversations, activeConversationId, isStreaming, abortController,
                   aborted, repo, allocated, settings, provider, clock, send, crt,
                   upd, del>>

LoadConversationsReturn ==
    /\ UNCHANGED api
    /\ UNCHANGED <<calls, failures>>
    /\ load.pc = "await"
    /\ lastOp' = "other"
    /\ load' = IdleCall
    /\ isLoading' = FALSE
    /\ IF load.io = "fail"
       THEN /\ error' = "Failed to load conversations"
            /\ UNCHANGED conversations
       ELSE /\ conversations' = SortDesc(load.result)
            /\ UNCHANGED error
    /\ UNCHANGED <<activeConversationId, isStreaming, abortController, aborted, repo,
                   allocated, settings, provider, clock, send, crt, upd, del>>

\* ------------------------------------------------------------------- time
Tick(g) ==
    /\ UNCHANGED api
    /\ UNCHANGED <<calls, failures>>
    /\ clock + g <= MaxClock
    /\ clock' = clock + g
    /\ lastOp' = "other"
    /\ UNCHANGED <<conversations, activeConversationId, isLoading, isStreaming, error,
                   abortController, aborted, repo, allocated, settings, provider,
                   send, crt, upd, del, load>>

\* ------------------------------------------------------ GoogleAPIClient
\* The operations of the client on a backend that fails with api.thrown:
\* api.out is what the operation returns or throws.
Thrown(e) == [kind |-> "thrown", value |-> e]
Returned(v) == [kind |-> "returned", value |-> v]

\* "" + error
ErrorToString(e) ==
    IF e.cls = "thrown" THEN e.message.v
    ELSE IF e.message.v = <<>> THEN <<Run(e.name)>>
    ELSE <<Run(e.name \o ": ")>> \o e.message.v

\* Every variable of the store
storeState == <<conversations, activeConversationId, isLoading, isStreaming, error,
                abortController, aborted, repo, allocated, settings, provider,
                clock, send, crt, upd, del, load, lastOp, calls, failures>>

\* getNestedErrorMessage(message) on the message of the failure
ApiGetNestedErrorMessage ==
    /\ api.op = "none"
    /\ api' = [api EXCEPT !.op = "getNestedErrorMessage",
                          !.out = Returned(getNestedErrorMessage(api.thrown.message))]
    /\ UNCHANGED storeState

\* createClient: validateKey answers false on an ApiError and rethrows
\* anything else
ApiCreateClient ==
    /\ api.op = "none"
    /\ api' = [api EXCEPT !.op = "createClient",
                          !.out = IF api.thrown.cls = "ApiError"
                                  THEN Thrown(ErrorValue("Error", "Error",
                                                         JsText("Invalid API key")))
                                  ELSE Thrown(api.thrown)]
    /\ UNCHANGED storeState

ApiGetModels ==
    /\ api.op = "none"
    /\ api' = [api EXCEPT !.op = "getModels",
                          !.out = Thrown(ErrorValue("Error", "Error",
                                    JsString(<<Run("Failed to list models: ")>>
                                             \o ErrorToString(api.thrown))))]
    /\ UNCHANGED storeState

ApiGetModel ==
    /\ api.op = "none"
    /\ api' = [api EXCEPT !.op = "getModel", !.out = Thrown(api.thrown)]
    /\ UNCHANGED storeState

ApiCountTokens ==
    /\ api.op = "none"
    /\ api' = [api EXCEPT !.op = "countTokens", !.out = Thrown(api.thrown)]
    /\ UNCHANGED storeState

ApiChat ==
    /\ api.op = "none"
    /\ api' = [api EXCEPT !.op = "chat", !.out = Thrown(normalizeError(api.thrown))]
    /\ UNCHANGED storeState

ApiStreamChat ==
    /\ api.op = "none"
    /\ api' = [api EXCEPT !.op = "streamChat",
                          !.out = Thrown(normalizeError(api.thrown))]
    /\ UNCHANGED storeState

\* new ProviderError(error, "google") on the failure
ApiNewProviderError ==
    /\ api.op = "none"
    /\ api' = [api EXCEPT !.op = "ProviderError",
                          !.out = Returned(ProviderErrorFrom(api.thrown))]
    /\ UNCHANGED storeState

ApiInputs ==
    {[IdleApi EXCEPT !.op = "none", !.description = d, !.thrown = ApiFailure(d)] :
        d \in Descriptions}
    \cup {[IdleApi EXCEPT !.op = "none", !.thrown = e] : e \in OtherFailures}

\* ------------------------------------- GoogleAPIClient, call by call
\* One call of streamChat, chat or countTokens on a backend that answers or
\* fails, with an AbortSignal that is absent ("none"), live or aborted.
\* api.issued counts the requests sent to the backend, api.received holds the
\* backend chunks handed to the for await of streamChat, api.yielded the
\* chunks streamChat yielded, api.listeners the "abort" listeners of the call
\* that are on the signal, api.registered how many it ever added.
Signals == {"none", "live", "aborted"}

\* new DOMException("Aborted", "AbortError")
AbortedException == ErrorValue("DOMException", "AbortError", JsText("Aborted"))

\* What the SDK rejects with
SdkFailures == {ErrorValue("ApiError", "ApiError", JsText("quota exceeded")),
                ErrorValue("TypeError", "TypeError", JsText("fetch failed"))}

\* What generateContent resolves with: nothing, or a response with text,
\* candidates[0].finishReason and usageMetadata.totalTokenCount
NoResponse == [present |-> FALSE, text |-> Undefined, finishReason |-> Undefined,
               totalTokenCount |-> Undefined]

Responses ==
    {NoResponse} \cup [present : {TRUE}, text : {Undefined, "", "a"},
                       finishReason : {Undefined, "STOP"},
                       totalTokenCount : {Undefined, "15"}]

\* The ChatResponse chat builds from a response with text
ChatResponse(response) ==
    [content |-> response.text,
     finishReason |-> mapFinishReason(response.finishReason),
     tokens |-> IF response.totalTokenCount = Undefined THEN "0"
                ELSE response.totalTokenCount]

\* The texts countTokens is asked about and the totals the endpoint answers
\* with (response.totalTokens may be missing)
CountedTexts == {"", "abcde"}
Totals == {JsUndefined, JsNumber(0), JsNumber(7)}

\* estimateTokens: Math.ceil(text.length / 4)
estimateTokens(text) == (Len(text) + 3) \div 4

\* The first next() on streamChat(request, signal): the generator runs up to
\* its await of generateContentStream
StreamChatStart ==
    /\ api.op = "ready"
    /\ api' = IF api.signal = "aborted"
              THEN [api EXCEPT !.op = "streamChat", !.pc = "done",
                               !.out = Thrown(normalizeError(AbortedException))]
              ELSE [api EXCEPT !.op = "streamChat", !.pc = "awaitOpen", !.issued = @ + 1]
    /\ UNCHANGED storeState

\* generateContentStream resolved: the for await asks for the first chunk
StreamChatOpened ==
    /\ api.op = "streamChat" /\ api.pc = "awaitOpen"
    /\ api' = [api EXCEPT !.pc = "awaitChunk"]
    /\ UNCHANGED storeState

\* generateContentStream, or the read of the next chunk, rejected
StreamChatFails(e) ==
    /\ api.op = "streamChat" /\ api.pc \in {"awaitOpen", "awaitChunk"}
    /\ api' = [api EXCEPT !.pc = "done", !.out = Thrown(normalizeError(e))]
    /\ UNCHANGED storeState

\* StreamChatChunk as it would be without the check of the signal in the loop
StreamChatChunkUnchecked(bc) ==
    /\ api.op = "streamChat" /\ api.pc = "awaitChunk"
    /\ Len(api.received) < MaxChunks
    /\ api' = [api EXCEPT !.received = Append(@, bc),
                          !.yielded = Append(@, YieldedChunk(bc))]
    /\ UNCHANGED storeState

\* The backend handed over its next chunk: the signal is checked, then the
\* chunk is yielded and the consumer asks for the next
StreamChatChunk(bc) ==
    /\ api.op = "streamChat" /\ api.pc = "awaitChunk"
    /\ Len(api.received) < MaxChunks
    /\ api' = IF api.signal = "aborted"
              THEN [api EXCEPT !.received = Append(@, bc), !.pc = "done",
                               !.out = Thrown(normalizeError(AbortedException))]
              ELSE [api EXCEPT !.received = Append(@, bc),
                               !.yielded = Append(@, YieldedChunk(bc))]
    /\ UNCHANGED storeState

\* The backend's stream ended: the generator returns
StreamChatEnd ==
    /\ api.op = "streamChat" /\ api.pc = "awaitChunk"
    /\ api' = [api EXCEPT !.pc = "done", !.out = Returned(JsUndefined)]
    /\ UNCHANGED storeState

\* chat(request, signal) up to its await
ChatStart ==
    /\ api.op = "ready"
    /\ api' = IF api.signal = "aborted"
              THEN [api EXCEPT !.op = "chat", !.pc = "done",
                               !.out = Thrown(normalizeError(AbortedException))]
              ELSE IF api.signal = "none"
              THEN [api EXCEPT !.op = "chat", !.pc = "awaitResponse", !.issued = @ + 1]
              ELSE \* signal.addEventListener("abort", abortHandler)
                   [api EXCEPT !.op = "chat", !.pc = "awaitResponse", !.issued = @ + 1,
                               !.listeners = @ + 1, !.registered = @ + 1]
    /\ UNCHANGED storeState

\* ChatResponds as it would be without the check for an empty response
ChatRespondsUnchecked(response) ==
    /\ api.op = "chat" /\ api.pc = "awaitResponse"
    /\ api' = [api EXCEPT !.pc = "done", !.received = <<response>>,
                          !.listeners = 0,
                          !.out = Returned(ChatResponse(response))]
    /\ UNCHANGED storeState

\* generateContent resolved before the signal was aborted; the finally of
\* the race removes the listener on either way out
ChatResponds(response) ==
    /\ api.op = "chat" /\ api.pc = "awaitResponse"
    /\ api' = [api EXCEPT !.pc = "done", !.received = <<response>>,
                !.listeners = 0,
                !.out = IF ~response.present \/ response.text \in {Undefined, ""}
                        THEN Thrown(normalizeError(ErrorValue("Error", "Error",
                                        JsText("Empty response from Google API"))))
                        ELSE Returned(ChatResponse(response))]
    /\ UNCHANGED storeState

\* ChatFails as it would be if the listener were removed after the race
\* instead of in a finally
ChatFailsKeepsListener(e) ==
    /\ api.op = "chat" /\ api.pc = "awaitResponse"
    /\ api' = [api EXCEPT !.pc = "done", !.out = Thrown(normalizeError(e))]
    /\ UNCHANGED storeState

\* generateContent rejected before the signal was aborted
ChatFails(e) ==
    /\ api.op = "chat" /\ api.pc = "awaitResponse"
    /\ api' = [api EXCEPT !.pc = "done", !.listeners = 0,
                          !.out = Thrown(normalizeError(e))]
    /\ UNCHANGED storeState

\* SignalAbort as it would be if chat awaited the response alone
SignalAbortUnraced ==
    /\ api.signal = "live"
    /\ api.pc # "done"
    /\ api' = [api EXCEPT !.signal = "aborted"]
    /\ UNCHANGED storeState

\* controller.abort(): the signal is aborted; the abortHandler of a chat that
\* awaits its race rejects abortPromise, which settles the race
SignalAbort ==
    /\ api.signal = "live"
    /\ api.pc # "done"
    /\ api' = IF api.op = "chat" /\ api.pc = "awaitResponse"
              THEN [api EXCEPT !.signal = "aborted", !.pc = "done", !.listeners = 0,
                               !.out = Thrown(normalizeError(AbortedException))]
              ELSE [api EXCEPT !.signal = "aborted"]
    /\ UNCHANGED storeState

\* countTokens(contents, modelId) up to its await
CountTokensStart(text) ==
    /\ api.op = "ready"
    /\ api' = [api EXCEPT !.op = "countTokens", !.pc = "awaitCount", !.text = text,
                          !.issued = @ + 1]
    /\ UNCHANGED storeState

\* models.countTokens resolved: response.totalTokens ?? 0
CountTokensAnswers(total) ==
    /\ api.op = "countTokens" /\ api.pc = "awaitCount"
    /\ api' = [api EXCEPT !.pc = "done",
                          !.out = Returned(IF total = JsUndefined THEN JsNumber(0)
                                           ELSE total)]
    /\ UNCHANGED storeState

\* models.countTokens rejected: nothing catches
CountTokensFails(e) ==
    /\ api.op = "countTokens" /\ api.pc = "awaitCount"
    /\ api' = [api EXCEPT !.pc = "done", !.thrown = e, !.out = Thrown(e)]
    /\ UNCHANGED storeState

\* ------------------------------------------------------- specifications
NoCallInFlight ==
    /\ \A s \in SendIds : ~InFlight(s)
    /\ crt.pc = "idle" /\ upd.pc = "idle" /\ del.pc = "idle" /\ load.pc = "idle"

\* The ids of the messages of conversation id in the list
MessageIds(cs, id) ==
    IF HasConv(cs, id)
    THEN {FindConv(cs, id).messages[i].id : i \in 1..Len(FindConv(cs, id).messages)}
    ELSE {}

\* A call of one of the store's operations
Call ==
    \/ \E s \in SendIds, content \in UserTexts : SendMessage(s, content)
    \/ CreateConversation(UiModel, UiParameters)
    \/ \E id \in ConvIds, content \in EditTexts :
        \E m \in MessageIds(conversations, id) \cup {UserMsgId(1)} :
            UpdateMessage(id, m, content)
    \/ \E id \in ConvIds : DeleteConversation(id)
    \/ LoadConversations
    \/ \E id \in ConvIds : SetActiveConversation(id)

\* A sendMessage call resumes after an await that is not a stream chunk
SendResume ==
    \E s \in SendIds :
        \/ SendAutoCreateReturn(s)
        \/ SendPersistUserReturn(s)
        \/ \E o \in ClientOutcomes : SendCreateClientReturn(s, o)
        \/ \E io \in {"ok", "fail"} : SendOpenStreamReturn(s, io)
        \/ \E e \in ProviderFailures(s) : SendStreamFail(s, e)
        \/ \E io \in IoOutcomes : SendStreamEnd(s, io)
        \/ SendPersistFinalReturn(s)

\* Another call resumes after its repository await
CallResume ==
    \/ CreateConversationReturn
    \/ UpdateMessageReturn
    \/ DeleteConversationReturn
    \/ LoadConversationsReturn

\* The store as the application wires it (GoogleAPIClient), under every
\* interleaving of its operations
Next ==
    \/ Call
    \/ abortController # NoId /\ AbortGeneration
    \/ SendResume
    \/ CallResume
    \/ \E s \in SendIds : \E ch \in FewProviderChunks(s) : SendStreamChunk(s, ch)
    \/ Tick(ThrottleMs)

\* The store as the application wires it: sendMessage uses GoogleAPIClient
InitGoogle == Init /\ provider = "google"

Spec == InitGoogle /\ [][Next]_vars

\* sendMessage and abortGeneration alone, each sendMessage awaited before the
\* next, over either provider and every chunk the first stream can yield
NextSend ==
    \/ /\ \A s \in SendIds : ~InFlight(s)
       /\ \E s \in SendIds, content \in UserTexts : SendMessage(s, content)
    \/ SendResume
    \/ \E s \in SendIds :
        \E ch \in (IF s = 1 THEN ProviderChunks ELSE FewProviderChunks(s)) :
            SendStreamChunk(s, ch)
    \/ AbortGeneration
    \/ \E g \in Gaps : Tick(g)

SpecSend == Init /\ [][NextSend]_vars

\* The store as the application wires it, each operation awaited before the
\* next is called
NextAwaited ==
    \/ NoCallInFlight /\ Call
    \/ abortController # NoId /\ AbortGeneration
    \/ SendResume
    \/ CallResume
    \/ \E s \in SendIds : \E ch \in FewProviderChunks(s) : SendStreamChunk(s, ch)
    \/ Tick(ThrottleMs)

SpecAwaited == InitGoogle /\ [][NextAwaited]_vars

\* The store once ChatInterface has created its first conversation
InitCreated ==
    /\ conversations = <<Conversation(1, UiModel, UiParameters, <<>>, 0)>>
    /\ activeConversationId = 1
    /\ isLoading = FALSE
    /\ isStreaming = FALSE
    /\ error = Null
    /\ abortController = NoId
    /\ aborted = {}
    /\ repo = RepoCreate([c \in ConvIds |-> NoRecord], 1, UiModel, UiParameters, 0)
    /\ allocated = 1
    /\ settings = "ok"
    /\ provider = "google"
    /\ clock = 0
    /\ send = [s \in SendIds |-> IdleSend]
    /\ crt = IdleCall
    /\ upd = IdleCall
    /\ del = IdleCall
    /\ load = IdleCall
    /\ lastOp = "other"
    /\ calls = 0
    /\ failures = 0
    /\ api = IdleApi

\* sendMessage, updateMessage and abortGeneration on that conversation, under
\* every interleaving
NextEdit ==
    \/ \E s \in SendIds, content \in UserTexts : SendMessage(s, content)
    \/ \E id \in ConvIds, content \in EditTexts :
        \E m \in MessageIds(conversations, id) \cup {UserMsgId(1)} :
            UpdateMessage(id, m, content)
    \/ UpdateMessageReturn
    \/ abortController # NoId /\ AbortGeneration
    \/ \E s \in SendIds :
        \/ SendPersistUserReturn(s)
        \/ \E o \in ClientOutcomes : SendCreateClientReturn(s, o)
        \/ \E io \in {"ok", "fail"} : SendOpenStreamReturn(s, io)
        \/ \E e \in ProviderFailures(s) : SendStreamFail(s, e)
        \/ \E io \in IoOutcomes : SendStreamEnd(s, io)
        \/ SendPersistFinalReturn(s)
        \/ \E ch \in FewProviderChunks(s) : SendStreamChunk(s, ch)
    \/ Tick(ThrottleMs)

SpecEdit == InitCreated /\ [][NextEdit]_vars

\* The store as ChatInterface drives it: ChatInput is disabled while isLoading
\* or isStreaming, so sendMessage is called only when both are false;
\* abortGeneration can be called at any time
NextChatInterface ==
    \/ /\ ~isLoading /\ ~isStreaming
       /\ \E s \in SendIds, content \in UserTexts : SendMessage(s, content)
    \/ SendResume
    \/ \E s \in SendIds : \E ch \in FewProviderChunks(s) : SendStreamChunk(s, ch)
    \/ abortController # NoId /\ AbortGeneration
    \/ Tick(ThrottleMs)

SpecChatInterface == InitGoogle /\ [][NextChatInterface]_vars

\* The resumptions of sendMessage the runtime is sure to deliver: settled
\* repository calls and the settled requests of createClient and
\* generateContentStream.  Whether the open stream ever hands over another
\* chunk, ends or fails is up to the remote endpoint.
SettledResume ==
    \E s \in SendIds :
        \/ SendAutoCreateReturn(s)
        \/ SendPersistUserReturn(s)
        \/ \E o \in ClientOutcomes : SendCreateClientReturn(s, o)
        \/ \E io \in {"ok", "fail"} : SendOpenStreamReturn(s, io)
        \/ SendPersistFinalReturn(s)

\* ChatInterface's store on an endpoint that may fall silent in mid-stream
SpecSilentEndpoint ==
    InitGoogle /\ [][NextChatInterface]_vars /\ WF_vars(SettledResume)

\* The operations of GoogleAPIClient on a failing backend, one per behaviour
InitClient ==
    /\ InitStore
    /\ settings = "ok"
    /\ provider = "google"
    /\ api \in ApiInputs

NextClient ==
    \/ ApiGetNestedErrorMessage
    \/ ApiCreateClient
    \/ ApiGetModels
    \/ ApiGetModel
    \/ ApiCountTokens
    \/ ApiChat
    \/ ApiStreamChat
    \/ ApiNewProviderError

SpecClient == InitClient /\ [][NextClient]_vars

\* One call of GoogleAPIClient at a time, step by step, with the aborts of
\* its signal
InitCalls ==
    /\ InitStore
    /\ settings = "ok"
    /\ provider = "google"
    /\ api \in {[IdleApi EXCEPT !.op = "ready", !.signal = sg] : sg \in Signals}

NextCalls ==
    \/ StreamChatStart
    \/ StreamChatOpened
    \/ \E e \in SdkFailures : StreamChatFails(e)
    \/ \E bc \in BackendChunks : StreamChatChunk(bc)
    \/ StreamChatEnd
    \/ ChatStart
    \/ \E response \in Responses : ChatResponds(response)
    \/ \E e \in SdkFailures : ChatFails(e)
    \/ SignalAbort
    \/ \E text \in CountedTexts : CountTokensStart(text)
    \/ \E total \in Totals : CountTokensAnswers(total)
    \/ \E e \in SdkFailures : CountTokensFails(e)

SpecCalls == InitCalls /\ [][NextCalls]_vars

\* ===================================================================
\* Properties of sendMessage and abortGeneration
\* ===================================================================

\* The deltas of a sequence of chunks, concatenated in arrival order
RECURSIVE ConcatDeltas(_)
ConcatDeltas(chunks) ==
    IF chunks = <<>> THEN ""
    ELSE Head(chunks).delta \o ConcatDeltas(Tail(chunks))

HasMessage(cs, cid, mid) == mid \in MessageIds(cs, cid)

MessageOf(cs, cid, mid) ==
    LET ms == FindConv(cs, cid).messages
    IN  ms[CHOOSE i \in 1..Len(ms) : ms[i].id = mid]

LastMessage(cs, cid) ==
    LET ms == FindConv(cs, cid).messages IN ms[Len(ms)]

RECURSIVE IdsOf(_)
IdsOf(ms) == IF ms = <<>> THEN <<>> ELSE <<Head(ms).id>> \o IdsOf(Tail(ms))

IsPrefix(a, b) == Len(a) <= Len(b) /\ SubSeq(b, 1, Len(a)) = a

\* A cancellation as sendMessage can catch it: the DOMException itself, or
\* what GoogleAPIClient.streamChat makes of it
IsCancellation(e) == IsAborted(e) \/ e = NormalizeError(AbortError)

\* The metadata a finished stream leaves: finishReason and tokens of the last
\* chunk that carried a finishReason or a usage
ExpectedMetadata(chunks) ==
    LET carrying == {i \in 1..Len(chunks) :
                        chunks[i].finishReason # Undefined \/ chunks[i].usage}
    IN  IF carrying = {} THEN AssistantMetadata
        ELSE LET k == CHOOSE i \in carrying : \A j \in carrying : j <= i
             IN  [AssistantMetadata EXCEPT !.finishReason = chunks[k].finishReason,
                                           !.tokens = chunks[k].tokens]

\* The step in which send s leaves the stream through the catch block
StreamFailure(s) ==
    /\ send[s].pc \in {"openStream", "streaming"}
    /\ send'[s].pc = "done"
    /\ send'[s].outcome = "failed"

\* The step in which the final repository update of send s returns
FinalReturn(s) == send[s].pc = "persistFinal" /\ send'[s].pc = "done"

\* C1: when the stream fails with anything but a cancellation after yielding
\* some chunks, the placeholder holds the concatenation of the deltas that
\* arrived, error holds the failure's message, and both flags are false.
C1_PartialContentPreserved ==
    [][\A s \in SendIds :
        (StreamFailure(s) /\ ~IsCancellation(send'[s].err)) =>
            /\ HasMessage(conversations', send[s].conv, send[s].asst)
            /\ MessageOf(conversations', send[s].conv, send[s].asst).content
                    = ConcatDeltas(send[s].yielded)
            /\ error' = send'[s].err.message
            /\ error' # Null
            /\ ~isStreaming'
            /\ ~isLoading']_vars

C1_Witness ==
    \E s \in SendIds :
        /\ send[s].pc = "done" /\ send[s].outcome = "failed"
        /\ ~IsCancellation(send[s].err)
        /\ error = "Stream failed"
        /\ ~isStreaming /\ ~isLoading
        /\ \E c \in ConvIds :
            /\ HasMessage(conversations, c, AsstMsgId(s))
            /\ MessageOf(conversations, c, AsstMsgId(s)).content = "ab"

\* C2: when abortGeneration was called, the stream has yielded at least one
\* chunk and then fails with AbortError, error is null, isStreaming and
\* isLoading are false, abortController is cleared, and the last message of
\* the conversation is the placeholder holding the deltas that arrived.
C2_CancellationSilent ==
    [][\A s \in SendIds :
        (/\ StreamFailure(s)
         /\ send'[s].err = AbortError
         /\ s \in aborted
         /\ Len(send[s].yielded) >= 1) =>
            /\ error' = Null
            /\ ~isStreaming'
            /\ ~isLoading'
            /\ abortController' = NoId
            /\ LastMessage(conversations', send[s].conv).id = send[s].asst
            /\ LastMessage(conversations', send[s].conv).content
                    = ConcatDeltas(send[s].yielded)]_vars

C2_Witness ==
    \E s \in SendIds :
        /\ send[s].pc = "done" /\ send[s].err = AbortError
        /\ s \in aborted
        /\ error = Null /\ ~isStreaming /\ ~isLoading /\ abortController = NoId
        /\ \E c \in ConvIds :
            /\ HasMessage(conversations, c, AsstMsgId(s))
            /\ LastMessage(conversations, c).id = AsstMsgId(s)
            /\ LastMessage(conversations, c).content = "ab"

\* C3: with GoogleAPIClient.streamChat as the stream, a send that ends
\* because its signal was aborted leaves error null.
C3_EndToEndCancellationSilent ==
    [][\A s \in SendIds :
        (/\ provider = "google"
         /\ StreamFailure(s)
         /\ s \in aborted
         /\ IsCancellation(send'[s].err)) => error' = Null]_vars

\* C4: when the stream completes, the placeholder holds the
\* concatenation of all deltas and the finishReason and tokens of the last
\* chunk that carried them, error is null and isStreaming is false.
C4_SuccessfulCompletion ==
    [][\A s \in SendIds :
        FinalReturn(s) =>
            /\ HasMessage(conversations', send[s].conv, send[s].asst)
            /\ MessageOf(conversations', send[s].conv, send[s].asst).content
                    = ConcatDeltas(send[s].yielded)
            /\ MessageOf(conversations', send[s].conv, send[s].asst).metadata
                    = ExpectedMetadata(send[s].yielded)
            /\ error' = Null
            /\ ~isStreaming']_vars

\* C5: a successful sendMessage on a conversation without messages leaves
\* exactly two, the user message with the sent content and then the model
\* message with the concatenated deltas; and no step reorders or removes the
\* messages a conversation already has.
C5_Ordering ==
    /\ [][\A s \in SendIds :
            (FinalReturn(s) /\ send'[s].outcome = "finalized" /\ send[s].base = 0) =>
                LET ms == FindConv(conversations', send[s].conv).messages
                IN  /\ Len(ms) = 2
                    /\ ms[1] = Message(UserMsgId(s), "user", send[s].content, NoMetadata)
                    /\ ms[2].id = send[s].asst
                    /\ ms[2].role = "model"
                    /\ ms[2].content = ConcatDeltas(send[s].yielded)]_vars
    /\ [][\A c \in ConvIds :
            HasConv(conversations, c) =>
                /\ HasConv(conversations', c)
                /\ IsPrefix(IdsOf(FindConv(conversations, c).messages),
                            IdsOf(FindConv(conversations', c).messages))]_vars

C5_Witness ==
    \E s \in SendIds : \E c \in ConvIds :
        /\ send[s].pc = "done" /\ send[s].outcome = "finalized"
        /\ HasConv(conversations, c)
        /\ LET ms == FindConv(conversations, c).messages
           IN  /\ Len(ms) = 2
               /\ ms[1].id = UserMsgId(s) /\ ms[1].role = "user" /\ ms[1].content = "hi"
               /\ ms[2].id = AsstMsgId(s) /\ ms[2].role = "model" /\ ms[2].content = "ab"

\* The step in which the stream of send s ends and sendMessage finalizes
Finalization(s) == send[s].pc = "streaming" /\ send'[s].pc = "persistFinal"

\* C6 as stated: when N chunks arrive less than 16 ms apart, the writes of the
\* placeholder, the one of the finalization included, are fewer than N, and
\* the final content is the concatenation of all deltas.
C6_CommitThrottling ==
    [][\A s \in SendIds :
        (Finalization(s) /\ send[s].fast /\ Len(send[s].yielded) >= 1) =>
            /\ send[s].commits + 1 < Len(send[s].yielded)
            /\ MessageOf(conversations', send[s].conv, send[s].asst).content
                    = ConcatDeltas(send[s].yielded)]_vars

\* C6: when N >= 1 chunks arrive, each less than 16 ms after the one before
\* and the first less than 16 ms after the stream was requested, the commits
\* made inside the loop are fewer than N, at most N div 2; the finalization
\* adds one more write, and the final content is the concatenation of all
\* deltas.
C6_LoopCommitsThrottled ==
    [][\A s \in SendIds :
        (Finalization(s) /\ send[s].fast /\ Len(send[s].yielded) >= 1) =>
            /\ send[s].commits < Len(send[s].yielded)
            /\ 2 * send[s].commits <= Len(send[s].yielded)
            /\ MessageOf(conversations', send[s].conv, send[s].asst).content
                    = ConcatDeltas(send[s].yielded)]_vars

C6_Witness ==
    \E s \in SendIds :
        /\ send[s].pc = "persistFinal"
        /\ send[s].fast
        /\ Len(send[s].yielded) = 2
        /\ send[s].commits = 1
        /\ MessageOf(conversations, send[s].conv, send[s].asst).content = "ab"

\* The positions of sendMessage from createClient on
PastCredentialCheck == {"createClient", "openStream", "streaming", "persistFinal"}

\* C7: without settings or without a Google API key no send gets as far as
\* creating a client or opening a stream; when the send returns, error holds
\* a descriptive message, both flags are false, no placeholder was appended
\* and the user message is still there.
C7_MissingCredentialFailsFast ==
    /\ [](settings # "ok" => \A s \in SendIds : send[s].pc \notin PastCredentialCheck)
    /\ [][\A s \in SendIds :
            (settings # "ok" /\ send[s].pc = "persistUser" /\ send'[s].pc # "persistUser") =>
                /\ send'[s].pc = "done"
                /\ error' = (IF settings = "absent" THEN "Settings not initialized"
                             ELSE "API key not found for Google provider")
                /\ ~isLoading'
                /\ ~isStreaming'
                /\ ~HasMessage(conversations', send[s].conv, AsstMsgId(s))
                /\ LastMessage(conversations', send[s].conv)
                        = Message(UserMsgId(s), "user", send[s].content, NoMetadata)]_vars

C7_Witness ==
    \E s \in SendIds : \E c \in ConvIds :
        /\ settings = "nokey"
        /\ send[s].pc = "done" /\ send[s].outcome = "failed"
        /\ error = "API key not found for Google provider"
        /\ ~isLoading /\ ~isStreaming
        /\ HasMessage(conversations, c, UserMsgId(s))
        /\ ~HasMessage(conversations, c, AsstMsgId(s))

\* Send s has committed its user message and not yet reached its terminal
\* step (finalization or the catch block)
Committed(s) == send[s].pc \in {"persistUser", "createClient", "openStream", "streaming"}

\* C8: no two sends on the same conversation are at once between the commit
\* of their user message and their terminal step.
C8_OneSendPerConversation ==
    \A s \in SendIds : \A t \in SendIds :
        (s # t /\ Committed(s) /\ Committed(t)) => send[s].conv # send[t].conv

\* C9: abortGeneration without a controller changes nothing; with one it
\* aborts that controller's signal, sets isStreaming and isLoading to false
\* and clears abortController in the same step, and touches neither the
\* conversations nor the position of the send, which stops only when the
\* stream observes the signal.
C9_AbortGeneration ==
    [][lastOp' = "abortGeneration" =>
        IF abortController = NoId
        THEN UNCHANGED <<storeVars, aborted, repo, send>>
        ELSE /\ aborted' = aborted \cup {abortController}
             /\ ~isStreaming'
             /\ ~isLoading'
             /\ abortController' = NoId
             /\ UNCHANGED <<conversations, activeConversationId, error, repo, send>>]_vars

C9_Witness ==
    \E s \in SendIds :
        /\ lastOp = "abortGeneration"
        /\ send[s].pc = "streaming"
        /\ Len(send[s].yielded) >= 1
        /\ s \in aborted
        /\ ~isStreaming /\ ~isLoading /\ abortController = NoId

\* C10: once every send has returned and no other operation is pending,
\* isStreaming and isLoading are false and abortController is cleared.
C10_SessionEnds ==
    (NoCallInFlight /\ \E s \in SendIds : send[s].pc = "done") =>
        (~isStreaming /\ ~isLoading /\ abortController = NoId)

\* ===================================================================
\* Properties of GoogleAPIClient and the error normalizer
\* ===================================================================

\* The operations of the client a caller can invoke
PublicOperations == {"createClient", "getModels", "getModel", "countTokens",
                     "chat", "streamChat"}

\* The failure is an ApiError whose message was built from api.description
Described == api.thrown.cls = "ApiError"

\* No text in front of a wrapper holds a brace
BraceFree(layers) == \A i \in 1..Len(layers) : layers[i].pre # BracedText

\* The code of the innermost layer that carries one
InnermostCode(layers) ==
    LET carrying == {i \in 1..Len(layers) : Truthy(layers[i].code)}
    IN  IF carrying = {} THEN JsUndefined
        ELSE layers[CHOOSE i \in carrying : \A j \in carrying : j <= i].code

\* C11: for a message of nested JSON wrappers around a plain text, the
\* statusCode of the normalized error is the code of the innermost wrapper
\* that has one.
C11_InnermostCodeWins ==
    (/\ api.op \in {"chat", "streamChat"}
     /\ Described
     /\ BraceFree(api.description.layers)
     /\ api.description.leaf = JsText("quota exceeded")) =>
        api.out.value.statusCode = InnermostCode(api.description.layers)

\* The leaf is a string that is not a JSON document with a message field
LeafWithoutMessage(leaf) ==
    LET parsed == JsonParse(leaf.v)
    IN  ~parsed.ok \/ Field(parsed.value, "message") = JsUndefined

C13_MalformedInputUnchanged ==
    (/\ api.op = "getNestedErrorMessage"
     /\ Described
     /\ api.description.layers = <<>>) =>
        api.out = Returned([message |-> api.thrown.message, code |-> JsUndefined])

\* C14: every failure that escapes a public operation of the client is a
\* ProviderError.
C14_OnlyNormalizedErrors ==
    (api.op \in PublicOperations /\ api.out.kind = "thrown") =>
        api.out.value.cls = "ProviderError"

\* C15: a failure caused by the abort of the signal is normalized to the type
\* cancelled, which no unmatched failure gets, and is not retriable.
C15_CancellationClassified ==
    (/\ api.op \in {"chat", "streamChat"}
     /\ api.thrown.cls = "DOMException"
     /\ api.thrown.name = "AbortError") =>
        /\ api.out.value.type = "cancelled"
        /\ api.out.value.type # normalizeError(ErrorValue("Error", "Error", JsText("boom"))).type
        /\ api.out.value.retriable = FALSE

\* C16: a normalized error is retriable exactly when its type is network,
\* rate_limit, server or unknown, and never when it is a cancellation.
C16_RetriabilityFollowsType ==
    (/\ api.op \in {"chat", "streamChat", "ProviderError"}
     /\ api.out.value.cls = "ProviderError") =>
        IF api.thrown.cls = "DOMException" /\ api.thrown.name = "AbortError"
           /\ api.op # "ProviderError"
        THEN api.out.value.retriable = FALSE
        ELSE api.out.value.retriable
                = (api.out.value.type \in {"network", "rate_limit", "server", "unknown"})

\* C17: when a send fails with a normalized error that is no cancellation,
\* the store's error is that error's userMessage.
C17_UserMessageShown ==
    [][\A s \in SendIds :
        (/\ StreamFailure(s)
         /\ send'[s].err.cls = "ProviderError"
         /\ ~IsCancellation(send'[s].err)) => error' = send'[s].err.userMessage]_vars

\* ===================================================================
\* Properties of the store's conversations
\* ===================================================================

\* C18: a sendMessage called while activeConversationId is null goes on to
\* create a conversation instead of stopping; when the repository create
\* succeeded the conversation is in the list with the model and parameters of
\* the settings (the hard-coded ones when the settings are absent), it is the
\* active conversation, its only message is the user message, and the send
\* goes on; the stored record, unless deleted meanwhile, has the same model
\* and parameters.
C18_LazyAutoCreation ==
    [][\A s \in SendIds :
        /\ (send[s].pc = "idle" /\ send'[s].pc # "idle" /\ activeConversationId = NoId)
              => send'[s].pc = "autoCreate"
        /\ (send[s].pc = "autoCreate" /\ send'[s].pc # "autoCreate" /\ send[s].io = "ok")
              => LET id == send[s].conv
                     created == FindConv(conversations', id)
                 IN  /\ HasConv(conversations', id)
                     /\ created.modelId = IF settings = "absent" THEN "gemma-3-1b-it"
                                          ELSE "settings.defaultModel"
                     /\ created.parameters =
                            IF settings = "absent"
                            THEN "temperature 0.7, maxTokens 1024, topP 0.9"
                            ELSE "settings.defaultParameters"
                     /\ repo'[id].present =>
                            /\ repo'[id].modelId = created.modelId
                            /\ repo'[id].parameters = created.parameters
                     /\ activeConversationId' = id
                     /\ created.messages =
                            <<Message(UserMsgId(s), "user", send[s].content, NoMetadata)>>
                     /\ send'[s].pc = "persistUser"]_vars

C18_Witness ==
    \E s \in SendIds :
        /\ send[s].pc = "createClient"
        /\ settings = "ok"
        /\ activeConversationId = send[s].conv
        /\ HasConv(conversations, send[s].conv)
        /\ FindConv(conversations, send[s].conv).modelId = "settings.defaultModel"
        /\ Len(FindConv(conversations, send[s].conv).messages) = 1
        /\ repo[send[s].conv].modelId = "settings.defaultModel"

\* C19: when the conversationsDb.update of the user message failed, the send
\* goes on as it would have: with a Google API key it moves to createClient,
\* the list and both flags are untouched and error stays null; without
\* one it ends with the credential error; in both cases the user message
\* stays in memory and the repository failure is not what the send ends with.
C19_PersistFailureIsNoGate ==
    [][\A s \in SendIds :
        (send[s].pc = "persistUser" /\ send'[s].pc # "persistUser" /\ send[s].io = "fail") =>
            /\ conversations' = conversations
            /\ HasMessage(conversations', send[s].conv, UserMsgId(s))
            /\ send'[s].err # DbError
            /\ error' # DbError.message
            /\ IF settings = "ok"
               THEN /\ send'[s].pc = "createClient"
                    /\ error' = Null
                    /\ isLoading' = isLoading /\ isStreaming' = isStreaming
               ELSE /\ send'[s].pc = "done"
                    /\ error' = (IF settings = "absent" THEN "Settings not initialized"
                                 ELSE "API key not found for Google provider")]_vars

\* A send streams into its placeholder although its user message never
\* reached the repository
C19_Witness ==
    \E s \in SendIds :
        /\ send[s].pc = "streaming"
        /\ send[s].yielded # <<>>
        /\ failures = 1
        /\ repo[send[s].conv].present
        /\ repo[send[s].conv].messages = <<>>
        /\ HasMessage(conversations, send[s].conv, UserMsgId(s))
        /\ HasMessage(conversations, send[s].conv, AsstMsgId(s))
        /\ error = Null

\* The conversations of the list other than c
Others(cs, c) == SelectSeq(cs, LAMBDA x : x.id # c)

\* C20: with each operation awaited before the next, when updateMessage(c, m,
\* text) on a conversation of the list returns after a successful repository
\* update, message m has content text, every other message is as it was, the
\* messages are as many and in the same order, the repository holds the same
\* messages, the conversation's updatedAt is the time of the call in memory
\* and in the repository, and the other conversations are as they were; a
\* call with an id that is not in the list changes neither the store nor the
\* repository.
C20_UpdateMessageReplacesContentOnly ==
    [][/\ (upd.pc = "idle" /\ upd'.pc = "await") =>
            /\ upd'.conv.updatedAt = clock
            /\ upd'.io = "ok" => repo'[upd'.id].updatedAt = clock
       /\ (upd.pc = "await" /\ upd'.pc = "idle" /\ upd.io = "ok") =>
            LET c == upd.id
                before == FindConv(conversations, c)
                after == FindConv(conversations', c)
            IN  /\ HasConv(conversations, c) /\ HasConv(conversations', c)
                /\ Len(after.messages) = Len(before.messages)
                /\ \A i \in 1..Len(before.messages) :
                        after.messages[i] =
                            IF before.messages[i].id = upd.messageId
                            THEN [before.messages[i] EXCEPT !.content = upd.content]
                            ELSE before.messages[i]
                /\ repo'[c].messages = after.messages
                /\ after.updatedAt = upd.conv.updatedAt
                /\ after.updatedAt >= before.updatedAt
                /\ after.modelId = before.modelId
                /\ Others(conversations', c) = Others(conversations, c)
       /\ (lastOp' = "updateMessage" /\ upd'.pc = "idle") =>
            UNCHANGED <<storeVars, repo, upd>>]_vars

\* The user message of a finished send was edited: it holds the new text in
\* memory and in the repository, and the reply after it is as it was
C20_Witness ==
    \E c \in ConvIds :
        /\ upd.pc = "idle" /\ lastOp = "other" /\ calls = 2
        /\ HasConv(conversations, c)
        /\ Len(FindConv(conversations, c).messages) = 2
        /\ FindConv(conversations, c).messages[1].content \in EditTexts
        /\ FindConv(conversations, c).messages[2].content \notin EditTexts
        /\ FindConv(conversations, c).messages[2].content # ""
        /\ repo[c].messages = FindConv(conversations, c).messages

\* The list is in descending order of updatedAt
SortedDesc(cs) ==
    \A i \in 1..Len(cs) : \A j \in 1..Len(cs) :
        i < j => cs[i].updatedAt >= cs[j].updatedAt

\* C21: under every interleaving of the store's operations, conversations is
\* sorted by updatedAt in descending order.
C21_SortedList == SortedDesc(conversations)

\* C22: across every step of sendMessage and updateMessage, whatever the
\* interleaving, the updatedAt of a conversation of the list does not
\* decrease.
C22_UpdatedAtMonotone ==
    [][(crt' = crt /\ del' = del /\ load' = load) =>
        \A c \in ConvIds :
            (HasConv(conversations, c) /\ HasConv(conversations', c)) =>
                FindConv(conversations', c).updatedAt
                    >= FindConv(conversations, c).updatedAt]_vars

\* C23: in every state, under every interleaving, the placeholder of a send
\* sits right behind the user message of that send.
C23_PlaceholderAdjacency ==
    \A i \in 1..Len(conversations) : \A s \in SendIds :
        LET messages == conversations[i].messages
        IN  \A k \in 1..Len(messages) :
                messages[k].id = AsstMsgId(s) =>
                    (k > 1 /\ messages[k - 1].id = UserMsgId(s))

\* ===================================================================
\* Properties of the calls of GoogleAPIClient
\* ===================================================================

\* The call failed with the error normalizeError makes of an abort
FailedAsCancelled(a) ==
    /\ a.pc = "done"
    /\ a.out.kind = "thrown"
    /\ a.out.value.cls = "ProviderError"
    /\ a.out.value.message = JsText("Request cancelled by user")
    /\ a.out.value.retriable = FALSE

\* C24: a streamChat started on an aborted signal fails as cancelled without
\* a request to the backend; a backend chunk that arrives once the signal is
\* aborted is not yielded and the call fails as cancelled; the chunks yielded
\* are, in order, the backend chunks received, each with the chunk's text as
\* delta ("" when the chunk has no text).
C24_NoYieldAfterCancellation ==
    [][/\ (api.op = "ready" /\ api'.op = "streamChat" /\ api.signal = "aborted") =>
            (FailedAsCancelled(api') /\ api'.issued = 0 /\ api'.yielded = <<>>)
       /\ (api.op = "streamChat" /\ api'.received # api.received
              /\ api.signal = "aborted") =>
            (FailedAsCancelled(api') /\ api'.yielded = api.yielded)
       /\ api'.op = "streamChat" =>
            /\ Len(api'.yielded) <= Len(api'.received)
            /\ \A i \in 1..Len(api'.yielded) :
                    api'.yielded[i].delta =
                        IF api'.received[i].text = Undefined THEN ""
                        ELSE api'.received[i].text]_vars

\* The second backend chunk arrived after the abort: one chunk was yielded
C24_Witness ==
    /\ api.op = "streamChat"
    /\ api.signal = "aborted"
    /\ Len(api.received) = 2
    /\ Len(api.yielded) = 1
    /\ api.yielded[1].delta = "a"
    /\ FailedAsCancelled(api)

\* C25: a chat called on an aborted signal fails as cancelled without a
\* request to the backend; an abort of the signal while the request is
\* outstanding makes the call fail as cancelled in that step, whatever the
\* backend does later; a response with text that arrives first is returned.
C25_ChatRacesCancellation ==
    [][/\ (api.op = "ready" /\ api'.op = "chat" /\ api.signal = "aborted") =>
            (FailedAsCancelled(api') /\ api'.issued = 0)
       /\ (api.op = "chat" /\ api.pc = "awaitResponse"
              /\ api.signal = "live" /\ api'.signal = "aborted") =>
            (FailedAsCancelled(api') /\ api'.received = <<>>)
       /\ (api.op = "chat" /\ api'.received # api.received
              /\ api'.received[1].present
              /\ api'.received[1].text \notin {Undefined, ""}) =>
            /\ api'.pc = "done"
            /\ api'.out.kind = "returned"
            /\ api'.out.value.content = api'.received[1].text]_vars

\* The signal was aborted while the request was outstanding
C25_Witness ==
    /\ api.op = "chat"
    /\ api.signal = "aborted"
    /\ api.issued = 1
    /\ api.received = <<>>
    /\ FailedAsCancelled(api)

\* C26: when generateContent resolves with no response or with a response
\* without text, chat fails with a ProviderError whose message is "Empty
\* response from Google API", with a signal or without.
C26_ContentlessResponseIsError ==
    [][(api.op = "chat" /\ api'.received # api.received
          /\ (~api'.received[1].present \/ api'.received[1].text \in {Undefined, ""})) =>
            /\ api'.pc = "done"
            /\ api'.out.kind = "thrown"
            /\ api'.out.value.cls = "ProviderError"
            /\ api'.out.value.message = JsText("Empty response from Google API")]_vars

\* A response whose text is empty arrived while the signal was live
C26_Witness ==
    /\ api.op = "chat"
    /\ api.signal = "live"
    /\ api.received # <<>>
    /\ api.received[1].present
    /\ api.received[1].text = ""
    /\ api.out.kind = "thrown"
    /\ api.out.value.message = JsText("Empty response from Google API")

\* C27: countTokens returns a number whatever the endpoint does: the
\* endpoint's total when it answers, the estimate ceil(length / 4) of the
\* text when it fails.
C27_CountTokensFallsBack ==
    (api.op = "countTokens" /\ api.pc = "done") =>
        /\ api.out.kind = "returned"
        /\ api.thrown \in SdkFailures =>
                api.out.value = JsNumber(estimateTokens(api.text))

\* C28: under every interleaving, a deleteConversation(id) whose repository
\* delete succeeds leaves no record under id in the repository; when it
\* returns, the list holds no conversation id, activeConversationId is null if
\* it was id and unchanged otherwise, and the other conversations, isLoading,
\* isStreaming and error are as they were.
C28_DeleteConversation ==
    [][/\ (del.pc = "idle" /\ del'.pc = "await" /\ del'.io = "ok") =>
            ~repo'[del'.id].present
       /\ (del.pc = "await" /\ del'.pc = "idle" /\ del.io = "ok") =>
            /\ ~HasConv(conversations', del.id)
            /\ Others(conversations', del.id) = Others(conversations, del.id)
            /\ activeConversationId' =
                    IF activeConversationId = del.id THEN NoId ELSE activeConversationId
            /\ UNCHANGED <<isLoading, isStreaming, error>>]_vars

\* The conversation of a finished send was deleted
C28_Witness ==
    /\ del.pc = "idle" /\ calls = 2
    /\ send[1].pc = "done" /\ send[1].outcome = "finalized"
    /\ allocated = 1
    /\ ~repo[1].present
    /\ conversations = <<>>
    /\ activeConversationId = NoId

\* How often the list holds a conversation id
Occurrences(cs, id) == Cardinality({i \in 1..Len(cs) : cs[i].id = id})

C30_UpdateKeepsConcurrentWrites ==
    [][(upd.pc = "await" /\ upd'.pc = "idle" /\ upd.io = "ok"
          /\ HasConv(conversations, upd.id)) =>
            LET before == FindConv(conversations, upd.id).messages
            IN  \A k \in 1..Len(before) :
                    /\ HasMessage(conversations', upd.id, before[k].id)
                    /\ before[k].id # upd.messageId =>
                            MessageOf(conversations', upd.id, before[k].id).content
                                = before[k].content]_vars

\* ===================================================================
\* Properties of the session fields and of persistence
\* ===================================================================

\* C31: whenever a send is inside its streaming loop and its own signal has
\* not been aborted, isStreaming is true and abortController is that send's
\* controller, so that abortGeneration reaches the running stream.
C31_AbortReachesRunningStream ==
    \A s \in SendIds :
        (send[s].pc = "streaming" /\ s \notin aborted) =>
            (isStreaming /\ abortController = s)

\* C32: a send whose signal was aborted while it awaits the next chunk of
\* its stream unwinds and returns, whether or not the endpoint delivers
\* another chunk.
C32_CancellationObservedWhileSuspended ==
    \A s \in SendIds :
        (send[s].pc = "streaming" /\ s \in aborted) ~> (send[s].pc = "done")

\* C33: once a sendMessage has returned, no send is in flight and no
\* repository call has failed, the repository holds for every conversation of
\* the list the messages the list holds, however the send ended.
C33_MemoryAndRepositoryConverge ==
    (/\ \E s \in SendIds : send[s].pc = "done"
     /\ \A s \in SendIds : ~InFlight(s)
     /\ failures = 0) =>
        \A c \in ConvIds :
            HasConv(conversations, c) =>
                /\ repo[c].present
                /\ repo[c].messages = FindConv(conversations, c).messages

\* C34: when a network call of a send returns (createClient, which validates
\* the key with models.list, or the request that opens the stream), the
\* placeholder of that send is already in the conversation.
C34_PlaceholderPrecedesNetwork ==
    [][\A s \in SendIds :
        (/\ send[s].pc \in {"createClient", "openStream"}
         /\ send'[s].pc # send[s].pc) =>
            HasMessage(conversations, send[s].conv, AsstMsgId(s))]_vars

\* A step of send s out of its streaming loop: a chunk, the end of the stream
\* or a failure
LoopStep(s) == send[s].pc = "streaming" /\ send'[s] # send[s]

\* C35: a throttled commit and the commit of the catch block change the
\* content of the placeholder and nothing else; the finalization alone
\* merges lastMetadata into its metadata; no commit changes another message.
C35_MetadataOnlyAtFinalization ==
    [][\A s \in SendIds : \A c \in ConvIds :
        (LoopStep(s) /\ HasConv(conversations, c)) =>
            /\ HasConv(conversations', c)
            /\ LET ms == FindConv(conversations, c).messages
                   ns == FindConv(conversations', c).messages
               IN  /\ Len(ns) = Len(ms)
                   /\ \A i \in 1..Len(ms) :
                        IF c = send[s].conv /\ ms[i].id = send[s].asst
                        THEN /\ ns[i].id = ms[i].id
                             /\ ns[i].role = ms[i].role
                             /\ ns[i].content \in
                                    {ms[i].content, send[s].full, send'[s].full}
                             /\ ns[i].metadata =
                                    IF Finalization(s)
                                    THEN MergeMetadata(ms[i].metadata,
                                                       send[s].lastMetadata)
                                    ELSE ms[i].metadata
                        ELSE ns[i] = ms[i]]_vars

C35_Witness ==
    \E s \in SendIds :
        /\ send[s].pc = "streaming"
        /\ send[s].commits >= 1
        /\ send[s].lastMetadata.set
        /\ HasMessage(conversations, send[s].conv, send[s].asst)
        /\ MessageOf(conversations, send[s].conv, send[s].asst).content = send[s].full
        /\ send[s].full # ""
        /\ MessageOf(conversations, send[s].conv, send[s].asst).metadata
                = AssistantMetadata

\* C36: under every interleaving of sendMessage calls, the placeholder of a
\* send is appended and written by steps of that send alone, with that send's
\* fullContent, which is the concatenation of the deltas its own stream
\* yielded.  (Steps of the other operations, which write whole conversations,
\* are left aside.)
C36_OneAccumulatorPerPlaceholder ==
    [][\A s \in SendIds : \A c \in ConvIds :
        (/\ UNCHANGED <<crt, upd, del, load>>
         /\ HasMessage(conversations', c, AsstMsgId(s))) =>
            LET new == MessageOf(conversations', c, AsstMsgId(s)).content
            IN  \/ /\ HasMessage(conversations, c, AsstMsgId(s))
                   /\ MessageOf(conversations, c, AsstMsgId(s)).content = new
                \/ /\ send'[s] # send[s]
                   /\ c = send[s].conv
                   /\ new \in {send[s].full, send'[s].full}
                   /\ send[s].full = ConcatDeltas(send[s].yielded)
                   /\ send'[s].full = ConcatDeltas(send'[s].yielded)]_vars

C36_Witness ==
    \E c \in ConvIds :
        /\ send[1].pc = "streaming" /\ send[2].pc = "streaming"
        /\ HasMessage(conversations, c, AsstMsgId(1))
        /\ HasMessage(conversations, c, AsstMsgId(2))
        /\ MessageOf(conversations, c, AsstMsgId(1)).content = "a"
        /\ MessageOf(conversations, c, AsstMsgId(2)).content = "b"

C38_FlagAndTokenAgree == isStreaming <=> (abortController # NoId)

C38_Witness ==
    \E s \in SendIds :
        /\ send[s].pc = "streaming"
        /\ abortController = s
        /\ isStreaming
        /\ s \notin aborted
        /\ \E t \in SendIds : t # s /\ t \in aborted /\ send[t].pc = "done"

\* C39: in every reachable state activeConversationId is null or the id of a
\* conversation of the list.
C39_ActiveConversationValid ==
    activeConversationId = NoId \/ HasConv(conversations, activeConversationId)

\* ===================================================================
\* Properties of the abort listener of GoogleAPIClient.chat
\* ===================================================================

\* C40: a chat with a signal has its abort listener on the signal while it
\* awaits the race and none once it has returned or thrown, however it
\* ended; a chat that fails the initial aborted check never adds one.
C40_NoListenerLeak ==
    /\ (api.op = "chat" /\ api.pc = "done") => api.listeners = 0
    /\ (api.op = "chat" /\ api.pc = "done" /\ api.issued = 0) => api.registered = 0
    /\ (api.op = "chat" /\ api.pc = "awaitResponse") =>
            api.listeners = (IF api.signal = "none" THEN 0 ELSE 1)

C40_Witness ==
    /\ api.op = "chat" /\ api.pc = "done"
    /\ api.signal = "live"
    /\ api.registered = 1
    /\ api.listeners = 0
    /\ api.out.kind = "thrown"
    /\ api.out.value.message = JsText("quota exceeded")

====
